---- MODULE Spec2Model ----
(***************************************************************************)
(* Model of the NodeODM task orchestration engine: the lifecycle of a      *)
(* Task (full reconstruction, libs/Task.js) and of a SingularTask (single  *)
(* resource conversion, libs/SingularTask.js), the stage pipeline they     *)
(* build and run, and the supervision of the external processes.           *)
(*                                                                         *)
(* Node.js runs every handler to completion: one action of this model is   *)
(* one handler (an API call, or one completion callback) with everything   *)
(* it calls synchronously.  Handlers are written as operators from a       *)
(* "world" record (all the variables) to the world after the handler.      *)
(***************************************************************************)
EXTENDS Integers, Sequences, FiniteSets, TLC

VARIABLES
    task,      \* the task object: its fields as the constructor sets them
    config,    \* config.js flags and S3.enabled(), fixed for a process
    runs,      \* one closure per successful start(): where that run stands
    now,       \* the wall clock, new Date().getTime()
    signals,   \* the process handles the handler that ran last called
               \* tree-kill on, in order
    hooks,     \* the notifications the handler that ran last handed to the
               \* dispatcher (callWebhooks), in order
    logFile,   \* content of <project folder>/task_output.txt
    cancelRequested,
               \* history: a cancel() of the RUNNING task succeeded and no
               \* restart() has succeeded since
    reports,   \* history: the progress reports delivered to updateProgress
               \* from outside (ProgressReport) since the task was created
               \* or last restarted, in order
    chains,    \* the retry chains of the notifications that are followed:
               \* one notifyCallback closure each
    supervised \* the call of a processRunner runner that is followed: its
               \* arguments and what it has done so far

vars == <<task, config, runs, now, signals, hooks, logFile, cancelRequested,
          reports, chains, supervised>>

\* ---------------------------------------------------------------- bounds

\* successful start() calls of one task that the model follows
MaxRuns == 2
\* the clock stops advancing here
MaxClock == 2
\* progress reports from outside that the model follows between restarts
MaxReports == 3
\* notifications of one task whose retry chain the model follows
MaxChains == 1

\* ------------------------------------------------------------- constants

QUEUED == "QUEUED"
RUNNING == "RUNNING"
FAILED == "FAILED"
COMPLETED == "COMPLETED"
CANCELED == "CANCELED"
statusCodes == {QUEUED, RUNNING, FAILED, COMPLETED, CANCELED}

\* A process handle names the child process by the run and the stage that
\* spawned it (stage 0 is the engine); a runner that did not spawn returns
\* undefined.
Handle(r, idx) == [run |-> r, stage |-> idx]
Undefined == Handle(0, 0)
\* the absent error of a node callback (null / undefined)
NoError == ""
\* async.parallelLimit(downloadTasks, 4, ...)
DownloadLimit == 4
\* the empty extra argument of setStatus(code)
NoExtra == <<>>
\* restart(undefined, cb): the options argument left out; a given
\* argument x is the one-element sequence <<x>>
NoOptions == <<>>

\* ------------------------------------------------------------- the world

\* The world a handler runs in: the variables, and ret, what the handler
\* gives back to its caller (a return value, or the error argument of cb).
\* no call of a runner is followed
NoCall == <<>>

NoReturn == [op |-> "none"]

World ==
    [task |-> task, config |-> config, runs |-> runs, now |-> now,
     signals |-> <<>>, hooks |-> <<>>, logFile |-> logFile,
     cancelRequested |-> cancelRequested, reports |-> reports,
     ret |-> NoReturn]

\* the state a handler leaves behind
Apply(w) ==
    /\ task' = w.task
    /\ config' = w.config
    /\ runs' = w.runs
    /\ now' = w.now
    /\ signals' = w.signals
    /\ hooks' = w.hooks
    /\ logFile' = w.logFile
    /\ cancelRequested' = w.cancelRequested
    /\ reports' = w.reports
    /\ supervised' = supervised

\* a handler none of whose notifications is followed
Commit(w) == Apply(w) /\ chains' = chains

Min(a, b) == IF a <= b THEN a ELSE b
Max(a, b) == IF a >= b THEN a ELSE b

\* ------------------------------------------------------ task primitives

\* this.status = {code}; then every key of extra is copied in
setStatus(w, code, extra) ==
    [w EXCEPT !.task.status =
        [k \in {"code"} \cup DOMAIN extra |->
            IF k \in DOMAIN extra THEN extra[k] ELSE code]]

errorExtra(msg) == [errorMessage |-> msg]

\* this.output.push(line)
pushOutput(w, line) == [w EXCEPT !.task.output = Append(@, line)]

\* getInfo(): the JSON projection of the task (imagesCount is fixed at
\* construction and not part of the modelled state)
getInfo(t) ==
    [uuid |-> t.uuid,
     name |-> t.name,
     projectId |-> t.projectId,
     dateCreated |-> t.dateCreated,
     processingTime |-> t.processingTime,
     status |-> t.status,
     options |-> t.options,
     taskType |-> t.taskType,
     progress |-> t.progress]

\* callWebhooks(resourceType): one dispatch per usable hook; the payload is
\* built once, at the call.  Task posts, SingularTask puts and has no
\* resourceType parameter.
callWebhooks(w, resourceType) ==
    LET hook == w.task.webhook
        tagged == w.task.kind = "Task" /\ resourceType # ""
        json == [info |-> getInfo(w.task),
                 resourceType |-> IF tagged THEN resourceType ELSE ""]
    IN IF hook # "" /\ Len(hook) > 3
       THEN [w EXCEPT !.hooks = Append(@, [hook |-> hook, json |-> json])]
       ELSE w

\* updateProgress(globalProgress): clamp, keep the maximum; Task.js then
\* calls callWebhooks(), SingularTask.js does not
\* updateProgress storing the report as it comes
updateProgressUnclamped(w, globalProgress) ==
    LET p == globalProgress
        w1 == IF p >= w.task.progress
              THEN [w EXCEPT !.task.progress = p]
              ELSE w
    IN IF w.task.kind = "Task" THEN callWebhooks(w1, "") ELSE w1

updateProgress(w, globalProgress) ==
    LET p == Min(100, Max(0, globalProgress))
        w1 == IF p >= w.task.progress
              THEN [w EXCEPT !.task.progress = p]
              ELSE w
    IN IF w.task.kind = "Task" THEN callWebhooks(w1, "") ELSE w1

updateProcessingTime(w, resetTime) ==
    [w EXCEPT !.task.processingTime =
        IF resetTime THEN -1 ELSE w.now - w.task.dateCreated]

startTrackingProcessingTime(w) ==
    [updateProcessingTime(w, FALSE) EXCEPT !.task.timer = TRUE]

stopTrackingProcessingTime(w, resetTime) ==
    [updateProcessingTime(w, resetTime) EXCEPT !.task.timer = FALSE]

\* ---------------------------------------------------------------- cancel

RECURSIVE killAll(_, _)
\* runningProcesses.forEach(proc => { if (proc) kill(proc.pid) })
killAll(sent, procs) ==
    IF procs = <<>> THEN sent
    ELSE killAll(IF Head(procs) # Undefined
                 THEN Append(sent, Head(procs)) ELSE sent,
                 Tail(procs))

\* cancel() recording its refusal as a failure of the task
cancelRecordingError(w) ==
    IF w.task.status.code # CANCELED
    THEN LET wasRunning == w.task.status.code = RUNNING
             w1 == setStatus(w, CANCELED, NoExtra)
             w2 == IF wasRunning
                   THEN [w1 EXCEPT
                           !.signals = killAll(@, w1.task.runningProcesses),
                           !.task.runningProcesses = <<>>]
                   ELSE w1
             w3 == stopTrackingProcessingTime(w2, TRUE)
         IN [w3 EXCEPT !.ret = [op |-> "cancel", error |-> NoError]]
    ELSE [setStatus(w, FAILED, errorExtra("Task already cancelled"))
            EXCEPT !.ret = [op |-> "cancel", error |-> "Task already cancelled"]]

\* cancel() signalling the handles whatever the status was
cancelSignallingAlways(w) ==
    IF w.task.status.code # CANCELED
    THEN LET w1 == setStatus(w, CANCELED, NoExtra)
             w2 == [w1 EXCEPT
                      !.signals = killAll(@, w1.task.runningProcesses),
                      !.task.runningProcesses = <<>>]
             w3 == stopTrackingProcessingTime(w2, TRUE)
         IN [w3 EXCEPT !.ret = [op |-> "cancel", error |-> NoError]]
    ELSE [w EXCEPT !.ret =
            [op |-> "cancel", error |-> "Task already cancelled"]]

cancel(w) ==
    IF w.task.status.code # CANCELED
    THEN LET wasRunning == w.task.status.code = RUNNING
             w1 == setStatus(w, CANCELED, NoExtra)
             w2 == IF wasRunning
                   THEN [w1 EXCEPT
                           !.signals = killAll(@, w1.task.runningProcesses),
                           !.task.runningProcesses = <<>>]
                   ELSE w1
             w3 == stopTrackingProcessingTime(w2, TRUE)
         IN [w3 EXCEPT !.ret = [op |-> "cancel", error |-> NoError]]
    ELSE [w EXCEPT !.ret =
            [op |-> "cancel", error |-> "Task already cancelled"]]

\* --------------------------------------------------------------- restart

\* restart() that also accepts a RUNNING task
restartWhileRunning(w, options) ==
    IF w.task.status.code \in {CANCELED, FAILED, COMPLETED, RUNNING}
    THEN LET w1 == setStatus(w, QUEUED, NoExtra)
             w2 == [w1 EXCEPT !.task.dateCreated = w1.now,
                              !.task.dateStarted = 0,
                              !.task.output = <<>>,
                              !.task.progress = 0]
             w3 == stopTrackingProcessingTime(w2, TRUE)
             w4 == IF options # NoOptions
                   THEN [w3 EXCEPT !.task.options = options[1]]
                   ELSE w3
         IN [w4 EXCEPT !.ret = [op |-> "restart", error |-> NoError]]
    ELSE [w EXCEPT !.ret =
            [op |-> "restart", error |-> "Task cannot be restarted"]]

\* restart() that keeps the log of the previous run
restartKeepingLog(w, options) ==
    IF w.task.status.code \in {CANCELED, FAILED, COMPLETED}
    THEN LET w1 == setStatus(w, QUEUED, NoExtra)
             w2 == [w1 EXCEPT !.task.dateCreated = w1.now,
                              !.task.dateStarted = 0,
                              !.task.progress = 0]
             w3 == stopTrackingProcessingTime(w2, TRUE)
             w4 == IF options # NoOptions
                   THEN [w3 EXCEPT !.task.options = options[1]]
                   ELSE w3
         IN [w4 EXCEPT !.ret = [op |-> "restart", error |-> NoError]]
    ELSE [w EXCEPT !.ret =
            [op |-> "restart", error |-> "Task cannot be restarted"]]

restart(w, options) ==
    IF w.task.status.code \in {CANCELED, FAILED, COMPLETED}
    THEN LET w1 == setStatus(w, QUEUED, NoExtra)
             w2 == [w1 EXCEPT !.task.dateCreated = w1.now,
                              !.task.dateStarted = 0,
                              !.task.output = <<>>,
                              !.task.progress = 0]
             w3 == stopTrackingProcessingTime(w2, TRUE)
             w4 == IF options # NoOptions
                   THEN [w3 EXCEPT !.task.options = options[1]]
                   ELSE w3
         IN [w4 EXCEPT !.ret = [op |-> "restart", error |-> NoError]]
    ELSE [w EXCEPT !.ret =
            [op |-> "restart", error |-> "Task cannot be restarted"]]

\* ------------------------------------------------------ pipeline builder

includes(seq, x) == \E i \in DOMAIN seq : seq[i] = x

elements(seq) == {seq[i] : i \in DOMAIN seq}

\* Array.prototype.indexOf: 0-based, -1 when absent
indexOf(seq, x) ==
    IF includes(seq, x)
    THEN (CHOOSE i \in DOMAIN seq :
            seq[i] = x /\ \A j \in DOMAIN seq : seq[j] = x => i <= j) - 1
    ELSE -1

\* seq.splice(start, 1): a negative start counts from the end
splice1(seq, start) ==
    LET at == IF start < 0 THEN Max(Len(seq) + start, 0) ELSE start
    IN [i \in 1..(IF at < Len(seq) THEN Len(seq) - 1 ELSE Len(seq)) |->
            IF i <= at THEN seq[i] ELSE seq[i + 1]]

RECURSIVE spliceEach(_, _)
\* dirs.forEach(dir => allPaths.splice(allPaths.indexOf(dir), 1))
spliceEach(allPaths, dirs) ==
    IF dirs = <<>> THEN allPaths
    ELSE spliceEach(splice1(allPaths, indexOf(allPaths, Head(dirs))),
                    Tail(dirs))

DefaultPaths ==
    <<"odm_orthophoto/odm_orthophoto.tif",
      "odm_orthophoto/odm_orthophoto.png",
      "odm_orthophoto/odm_orthophoto.mbtiles",
      "odm_georeferencing",
      "odm_texturing",
      "odm_dem/dsm.tif",
      "odm_dem/dtm.tif",
      "dsm_tiles",
      "dtm_tiles",
      "orthophoto_tiles",
      "potree_pointcloud",
      "entwine_pointcloud",
      "images.json",
      "cameras.json",
      "task_output.txt",
      "odm_report">>

SkipOrthophotoPaths ==
    <<"odm_orthophoto/odm_orthophoto.tif",
      "odm_orthophoto/odm_orthophoto.mbtiles",
      "orthophoto_tiles">>

SkipDemPaths ==
    <<"odm_dem/dsm.tif", "odm_dem/dtm.tif", "dsm_tiles", "dtm_tiles">>

\* allPaths left as it is by the test flags
resolveAllPathsUnspliced(outputs, cfg) ==
    IF Len(outputs) > 0 THEN outputs ELSE DefaultPaths

\* allPaths of postProcess: the requested outputs, or the default list,
\* less what the test flags splice out
resolveAllPaths(outputs, cfg) ==
    LET base == IF Len(outputs) > 0 THEN outputs ELSE DefaultPaths
        a1 == IF cfg.test /\ cfg.testSkipOrthophotos
              THEN spliceEach(base, SkipOrthophotoPaths) ELSE base
    IN IF cfg.test /\ cfg.testSkipDems
       THEN spliceEach(a1, SkipDemPaths) ELSE a1

\* One stage of a pipeline: what it does (op, arg, files), the line it
\* logs when invoked (pre) and the line it logs on success (msg).
Stage(op, arg, files, pre, msg) ==
    [op |-> op, arg |-> arg, files |-> files, pre |-> pre, msg |-> msg]

\* the command of each processRunner runner
runnerCommand(type) ==
    CASE type = "pointcloud_pre" -> "lasinfo"
      [] type = "pointcloud" -> "PotreeConverter"
      [] type = "pointcloud_post" -> "/usr/bin/node findSrs.js"
      [] type = "orthophoto" -> "gdal_translate"
      [] type = "mesh_initial" -> "nxsbuild"
      [] type = "mesh_post" -> "nxscompress"
      [] type = "ifc-convert" -> "IfcConvert"
      [] OTHER -> ""

\* Task.runPostProcess(type): a supervised runner, or a no-op for an
\* unknown type
runPostProcess(type) ==
    IF runnerCommand(type) = ""
    THEN Stage("noop", type, <<>>, "", "")
    ELSE Stage("runner", type, <<>>,
               "About to run: " \o runnerCommand(type), "")

\* SingularTask.runProcess(type, options): the same, sg-compare is a no-op
runProcess(type) == runPostProcess(type)

runPostProcessingScript ==
    Stage("postprocess", "postprocess.sh", <<>>,
          "About to run: postprocess.sh", "")

\* createZipArchive / createZipArchiveLegacy, chosen by config.has7z
archiveFunc(cfg, outputFilename, files) ==
    Stage(IF cfg.has7z THEN "sevenZip" ELSE "archiver",
          outputFilename, files, "Compressing " \o outputFilename, "")

uploadSingle(arg, msg) == Stage("uploadSingle", arg, <<>>, "", msg)
uploadPaths(arg, files, msg) == Stage("uploadPaths", arg, files, "", msg)
webhookStage(resourceType) == Stage("callWebhooks", resourceType, <<>>, "", "")

Opt(c, stages) == IF c THEN stages ELSE <<>>

\* the "sg s3 upload" branch uploading one artifact for the point cloud
managedUploadsSingle(cfg, allPaths) ==
    Opt(includes(allPaths, "odm_georeferencing"),
        <<uploadSingle("pointcloud.laz", "Uploaded pointcloud, continuing"),
          webhookStage("pointcloud")>>)

\* the "sg s3 upload" branch announcing the rasters before uploading them
managedUploadsAnnouncingFirst(cfg, allPaths) ==
    Opt(includes(allPaths, "odm_dem/dsm.tif"),
        <<webhookStage("dsm"),
          uploadSingle("dsm.tif", "Uploaded dsm, continuing")>>)
    \o Opt(includes(allPaths, "odm_dem/dtm.tif"),
        <<webhookStage("dtm"),
          uploadSingle("dtm.tif", "Uploaded dtm, continuing")>>)

\* the "sg s3 upload" branch of postProcess (managed mode, S3 enabled)
managedUploads(cfg, allPaths) ==
    Opt(includes(allPaths, "odm_georeferencing")
          \/ includes(allPaths, "odm_georeferencing/odm_georeferenced_model.laz"),
        <<uploadSingle("pointcloud.laz", "Uploaded pointcloud, continuing"),
          uploadPaths("potree_pointcloud", <<"potree_pointcloud">>,
                      "Done uploading potree_pointcloud, continuing"),
          webhookStage("pointcloud")>>)
    \o Opt(includes(allPaths, "odm_orthophoto")
          \/ includes(allPaths, "odm_orthophoto/odm_orthophoto.tif"),
        <<uploadSingle("orthophoto-cog.tif", "Uploaded orthophoto, continuing"),
          webhookStage("orthophoto")>>)
    \o Opt(includes(allPaths, "odm_dem/dsm.tif"),
        <<uploadSingle("dsm.tif", "Uploaded dsm, continuing"),
          webhookStage("dsm")>>)
    \o Opt(includes(allPaths, "odm_dem/dtm.tif"),
        <<uploadSingle("dtm.tif", "Uploaded dtm, continuing"),
          webhookStage("dtm")>>)
    \o Opt(includes(allPaths, "odm_texturing")
          \/ includes(allPaths, "odm_texturing/odm_textured_model.obj"),
        <<Stage("meshRename", "mesh.zip", <<>>, "", ""),
          uploadSingle("mesh.zip", "Uploaded mesh.zip, continuing"),
          webhookStage("mesh"),
          uploadSingle("nexus.nxz", "Uploaded nexus.nxz, continuing"),
          webhookStage("nexus"),
          uploadSingle("tracks.csv", "Uploaded tracks.csv, continuing"),
          uploadSingle("reconstruction.json",
                       "Uploaded reconstruction.json, continuing"),
          uploadSingle("report.pdf", "Uploaded report.pdf, continuing"),
          uploadSingle("stats.json", "Uploaded stats.json, finishing"),
          uploadSingle("shots.geojson", "Uploaded shots.geojson, finishing")>>)

\* a stage list that bundles and uploads per artifact whatever the mode
postProcessTasksOneBranch(t, cfg) ==
    LET allPaths == resolveAllPaths(t.outputs, cfg)
    IN <<archiveFunc(cfg, "all.zip", allPaths)>>
       \o Opt(cfg.s3Enabled, managedUploads(cfg, allPaths))

\* The stage list postProcess builds for a Task
postProcessTasks(t, cfg) ==
    LET allPaths == resolveAllPaths(t.outputs, cfg)
        managed == t.projectId # ""
    IN Opt(cfg.test /\ cfg.testSeconds > 0,
           <<Stage("sleep", "testSeconds", <<>>, "", "")>>)
       \o Opt(cfg.test /\ cfg.testFailTasks,
           <<Stage("fail", "Test fail", <<>>, "", "")>>)
       \o Opt(~t.skipPostProcessing /\ ~managed, <<runPostProcessingScript>>)
       \o Opt((managed /\ includes(allPaths, "odm_georeferencing"))
                \/ includes(allPaths, "odm_georeferencing/odm_georeferenced_model.laz"),
           <<runPostProcess("pointcloud_pre"),
             runPostProcess("pointcloud"),
             runPostProcess("pointcloud_post")>>)
       \o Opt((managed /\ includes(allPaths, "odm_orthophoto"))
                \/ includes(allPaths, "odm_orthophoto/odm_orthophoto.tif"),
           <<runPostProcess("orthophoto")>>)
       \o Opt((managed /\ includes(allPaths, "odm_texturing"))
                \/ includes(allPaths, "odm_texturing/odm_textured_model.obj"),
           <<runPostProcess("mesh_initial"), runPostProcess("mesh_post")>>)
       \o Opt(~managed, <<archiveFunc(cfg, "all.zip", allPaths)>>)
       \o Opt(cfg.s3Enabled /\ ~managed,
           <<uploadPaths("all",
                         IF cfg.s3UploadEverything
                         THEN <<"all.zip">> \o allPaths ELSE <<"all.zip">>,
                         "Done uploading to S3!")>>)
       \o Opt(cfg.s3Enabled /\ managed, managedUploads(cfg, allPaths))

downloadStage(what, msg) ==
    Stage("downloadPath", what, <<>>, "downloading " \o what \o "...", msg)

\* The stage list SingularTask.start builds, by taskType
singularTasks(t) ==
    (CASE t.taskType = "pointcloud" ->
            <<downloadStage("pointcloud", "Done downloading pointcloud, continuing"),
              runProcess("pointcloud_pre"),
              runProcess("pointcloud"),
              uploadPaths("potree_pointcloud", <<"potree_pointcloud">>,
                          "Done uploading potree_pointcloud, finalizing")>>
       [] t.taskType = "orthophoto" ->
            <<downloadStage("orthophoto", "Done downloading orthophoto, continuing"),
              runProcess("orthophoto"),
              uploadSingle("orthophoto-cog.tif", "Uploaded orthophoto, finalizing")>>
       [] t.taskType = "mesh" ->
            <<downloadStage("mesh", "Done downloading mesh, extracting"),
              Stage("unzip", "mesh.zip", <<>>, "", "Mesh extracted, processing..."),
              runProcess("mesh_initial"),
              runProcess("mesh_post"),
              uploadSingle("nexus.nxz", "Uploaded mesh, finalizing")>>
       [] t.taskType = "sg-compare" ->
            <<runProcess("sg-compare")>>
       [] t.taskType = "ifc-convert" ->
            <<downloadStage("mesh", "Done downloading ifc, continuing"),
              runProcess("ifc-convert"),
              uploadSingle("bim.glb", "Uploaded ifc-mesh, finalizing")>>
       [] OTHER -> <<>>)
    \o <<Stage("saveTaskOutput", "task_output.txt", <<>>, "", ""),
         Stage("uploadTaskOutput", "task_output.txt", <<>>, "", "")>>

\* -------------------------------------------------------- running a run

\* The closure of one start() call.
\*   phase     "download" | "engine" | "stage" | "finishing" | "done"
\*   next      index of the next image link async.parallelLimit will launch
\*   inflight  downloads launched and not yet called back
\*   ended     the parallelLimit completion callback has been called
\*   tasks,idx the stage list handed to async.series and the stage it is at
\*   buf       the text saveTaskOutput handed to fs.writeFile
\*   error     the argument finished() was called with
\*   done      the arguments of every call of start()'s done callback
\*   started   history: how many stages (the engine included) were invoked
\*   canceled  history: a cancel() of the RUNNING task succeeded while the
\*             run was in flight
\*   saved     history: the run wrote the log to task_output.txt
\*   uploadTried  history: the run called S3.uploadSingle for the log
\* runnerOptions is read once, when the engine is launched.  Once done is
\* called nothing refers to the closure any more: EndRun keeps its history
\* fields only.
NewRun(runnerOptions) ==
    [phase |-> "download", next |-> 1, inflight |-> 0, ended |-> FALSE,
     runnerOptions |-> runnerOptions, tasks |-> <<>>, idx |-> 1,
     buf |-> <<>>, error |-> NoError, done |-> <<>>,
     started |-> 0, canceled |-> FALSE,
     saved |-> FALSE, uploadTried |-> FALSE]

EndRun(run, error) ==
    [NewRun({}) EXCEPT !.phase = "done", !.ended = TRUE,
                       !.inflight = run.inflight, !.next = run.next,
                       !.done = Append(run.done, error),
                       !.started = run.started, !.canceled = run.canceled,
                       !.saved = run.saved, !.uploadTried = run.uploadTried]

optionNames(options) == {options[i].name : i \in DOMAIN options}

\* runnerOptions of Task.start: the option names handed to the engine;
\* dtm and dsm are forced when the requested outputs name their raster
buildRunnerOptions(t) ==
    optionNames(t.options)
      \cup (IF Len(t.outputs) > 0 /\ includes(t.outputs, "odm_dem/dtm.tif")
            THEN {"dtm"} ELSE {})
      \cup (IF Len(t.outputs) > 0 /\ includes(t.outputs, "odm_dem/dsm.tif")
            THEN {"dsm"} ELSE {})

track(w, handle) ==
    [w EXCEPT !.task.runningProcesses = Append(@, handle)]

\* finished(error) of start()
\*   Task: write the log file, start uploading it (the rest happens in
\*         the upload's callback, finishedUploaded)
\*   SingularTask: updateProgress(100), stop the timer, done(err)
finished(w, r, error) ==
    IF w.task.kind = "Task"
    THEN [w EXCEPT !.logFile = w.task.output,
                   !.runs[r].phase = "finishing",
                   !.runs[r].error = error,
                   !.runs[r].saved = TRUE,
                   !.runs[r].uploadTried = TRUE]
    ELSE LET w1 == updateProgress(w, 100)
             w2 == stopTrackingProcessingTime(w1, FALSE)
         IN [w2 EXCEPT !.runs[r] = EndRun(@, error)]

\* the upload callback calling done(error) and nothing else
finishedUploadedOnlyDone(w, r, uploadError) ==
    [w EXCEPT !.runs[r] = EndRun(@, w.runs[r].error)]

\* the callback of S3.uploadSingle(task_output.txt) in Task's finished
finishedUploaded(w, r, uploadError) ==
    LET w1 == updateProgress(w, 100)
        w2 == stopTrackingProcessingTime(w1, FALSE)
    IN [w2 EXCEPT !.runs[r] = EndRun(@, w.runs[r].error)]

\* the completion callback of async.series(tasks, ...)
seriesCallback(w, r, err) ==
    IF err = NoError
    THEN finished(setStatus(w, COMPLETED, NoExtra), r, NoError)
    ELSE finished(setStatus(w, FAILED, NoExtra), r, err)

\* a notification stage calling done() when the delivery has been answered
isSyncAwaitingDelivery(st, cfg) ==
    \/ st.op \in {"fail", "noop"}
    \/ st.op = "postprocess" /\ cfg.test

\* stages whose done() is called before the stage function returns
isSync(st, cfg) ==
    \/ st.op \in {"fail", "noop", "callWebhooks"}
    \/ st.op = "postprocess" /\ cfg.test

\* stages that spawn an external process
spawns(st, cfg) ==
    \/ st.op \in {"runner", "sevenZip"}
    \/ st.op = "postprocess" /\ ~cfg.test
    \/ st.op = "meshRename" /\ cfg.has7z

\* what invoking a stage function does before it returns (the handle of a
\* 7z process is dropped, not tracked)
invoke(w, r, st) ==
    LET w0 == [w EXCEPT !.runs[r].started = @ + 1]
        w1 == IF st.pre # "" THEN pushOutput(w0, st.pre) ELSE w0
    IN CASE st.op = "callWebhooks" -> callWebhooks(w1, st.arg)
         [] st.op = "postprocess" ->
              IF w.config.test
              THEN track(updateProgress(w1, 93), Undefined)
              ELSE track(w1, Handle(r, w.runs[r].idx))
         [] st.op = "runner" -> track(w1, Handle(r, w.runs[r].idx))
         [] st.op = "meshRename" -> pushOutput(w1, "Compressing mesh.zip")
         [] st.op = "saveTaskOutput" ->
              [w1 EXCEPT !.runs[r].buf = w1.task.output]
         [] st.op = "uploadTaskOutput" ->
              [w1 EXCEPT !.runs[r].uploadTried = TRUE]
         [] OTHER -> w1

RECURSIVE series(_, _)
\* async.series from stage idx on: invoke the stages in order up to the
\* first one that waits for a callback; a synchronous error ends the series
series(w, r) ==
    LET run == w.runs[r]
    IN IF run.idx > Len(run.tasks)
       THEN seriesCallback(w, r, NoError)
       ELSE LET st == run.tasks[run.idx]
                w1 == invoke(w, r, st)
            IN IF ~isSync(st, w.config)
               THEN [w1 EXCEPT !.runs[r].phase = "stage"]
               ELSE IF st.op = "fail"
               THEN seriesCallback(w1, r, st.arg)
               ELSE series([w1 EXCEPT !.runs[r].idx = @ + 1], r)

\* a stage that looks at the error of its callback only, not at the code
stageErrorIgnoringCode(st, err, code) ==
    IF st.op = "sleep" \/ st.op = "saveTaskOutput" THEN NoError ELSE err

\* the error a stage hands to done(), NoError on success, for the
\* callback arguments (err, code) the stage's collaborator reports
stageError(st, err, code) ==
    IF st.op = "sleep" \/ st.op = "saveTaskOutput" THEN NoError
    ELSE IF err # NoError THEN err
    ELSE IF st.op \in {"runner", "postprocess"} /\ code # "0"
    THEN "Process exited with code " \o code
    ELSE IF st.op \in {"sevenZip", "meshRename"} /\ code # "0"
    THEN "Could not archive .zip file, 7z exited with code " \o code
    ELSE NoError

\* the stage callback going on with the next stage whatever was reported
stageCallbackContinuing(w, r, err, code) ==
    series([w EXCEPT !.runs[r].idx = @ + 1], r)

\* the callback of the stage a run waits for
stageCallback(w, r, err, code) ==
    LET st == w.runs[r].tasks[w.runs[r].idx]
        e == stageError(st, err, code)
        w1 == IF e # NoError THEN w
              ELSE IF st.op \in {"runner", "postprocess"}
              THEN updateProgress(w, 93)
              ELSE IF st.op \in {"sevenZip", "archiver", "meshRename"}
              THEN updateProgress(w, 97)
              ELSE IF st.op = "saveTaskOutput"
              THEN (IF err = NoError
                    THEN [w EXCEPT !.logFile = w.runs[r].buf,
                                   !.runs[r].saved = TRUE]
                    ELSE w)
              ELSE IF st.msg # "" THEN pushOutput(w, st.msg)
              ELSE w
    IN IF e # NoError
       THEN seriesCallback(w1, r, e)
       ELSE series([w1 EXCEPT !.runs[r].idx = @ + 1], r)

\* postProcess() of Task.start: resolve the paths (test flags splice the
\* requested outputs in place), build the stage list, run it
postProcess(w, r) ==
    LET tasks == postProcessTasks(w.task, w.config)
        w1 == IF Len(w.task.outputs) > 0
              THEN [w EXCEPT !.task.outputs =
                        resolveAllPaths(w.task.outputs, w.config)]
              ELSE w
    IN series([w1 EXCEPT !.runs[r].tasks = tasks, !.runs[r].idx = 1], r)

\* odmRunner.run(options, uuid, done, outputReceived): the engine; in test
\* mode no process is created and the handle is undefined
odmRunnerRun(w, r) ==
    IF w.config.test THEN track(w, Undefined)
    ELSE track(w, Handle(r, 0))

launchEngine(w, r) ==
    [odmRunnerRun(w, r) EXCEPT !.runs[r].phase = "engine",
                               !.runs[r].ended = TRUE,
                               !.runs[r].runnerOptions = {},
                               !.runs[r].started = @ + 1]

\* the done callback handed to odmRunner.run
engineCallback(w, r, err, code) ==
    IF err # NoError
    THEN finished(setStatus(w, FAILED,
                      errorExtra("Could not start process (" \o err \o ")")),
                  r, err)
    ELSE IF w.task.status.code # CANCELED
    THEN IF code = "0"
         THEN postProcess(w, r)
         ELSE finished(setStatus(w, FAILED,
                           errorExtra("Process exited with code " \o code)),
                       r, NoError)
    ELSE finished(w, r, NoError)

\* dlLink.split('/').pop(): a link is the sequence of its path segments
imageName(dlLink) == dlLink[Len(dlLink)]

RECURSIVE replenish(_, _)
\* async.parallelLimit: launch downloads while fewer than the limit run
replenish(w, r) ==
    LET run == w.runs[r]
        links == w.task.imageLinks
    IN IF run.inflight < DownloadLimit /\ run.next <= Len(links)
       THEN replenish(
              [pushOutput(w, "downloading images/"
                                \o imageName(links[run.next]) \o " ...")
                 EXCEPT !.runs[r].inflight = @ + 1,
                        !.runs[r].next = @ + 1], r)
       ELSE w

\* a callback launching the engine as soon as no link is left to launch
downloadCallbackEager(w, r, err) ==
    LET w1 == [w EXCEPT !.runs[r].inflight = @ - 1]
        run == w1.runs[r]
    IN IF run.ended THEN w1
       ELSE IF run.next <= Len(w.task.imageLinks)
       THEN replenish(w1, r)
       ELSE launchEngine(w1, r)

\* the callback of one S3.downloadPath of the fan-out
downloadCallback(w, r, err) ==
    LET w1 == [w EXCEPT !.runs[r].inflight = @ - 1]
        run == w1.runs[r]
    IN IF run.ended THEN w1
       ELSE IF err # NoError
       THEN finished(
              setStatus([w1 EXCEPT !.runs[r].ended = TRUE], FAILED,
                  errorExtra("Could not download using imageLinks : ("
                             \o err \o ")")),
              r, err)
       ELSE IF run.next <= Len(w.task.imageLinks)
       THEN replenish(w1, r)
       ELSE IF run.inflight = 0
       THEN launchEngine(w1, r)
       ELSE w1

\* ----------------------------------------------------------------- start

\* Task.start leaving dateStarted as it is
startTaskUnstamped(w) ==
    LET w1 == startTrackingProcessingTime(w)
        w3 == setStatus(w1, RUNNING, NoExtra)
        w4 == callWebhooks(w3, "")
        r == Len(w.runs) + 1
        w5 == [w4 EXCEPT !.runs = Append(@, NewRun(buildRunnerOptions(w.task)))]
    IN IF Len(w.task.imageLinks) > 0
       THEN replenish(w5, r)
       ELSE launchEngine(w5, r)

\* Task.start launching the downloads of all links at once
startTaskUnlimited(w) ==
    LET w1 == startTrackingProcessingTime(w)
        w2 == [w1 EXCEPT !.task.dateStarted = w1.now]
        w3 == setStatus(w2, RUNNING, NoExtra)
        w4 == callWebhooks(w3, "")
        r == Len(w.runs) + 1
        w5 == [w4 EXCEPT !.runs = Append(@, NewRun(buildRunnerOptions(w.task)))]
    IN IF Len(w.task.imageLinks) > 0
       THEN [w5 EXCEPT !.runs[r].inflight = Len(w.task.imageLinks),
                       !.runs[r].next = Len(w.task.imageLinks) + 1]
       ELSE launchEngine(w5, r)

startTask(w) ==
    LET w1 == startTrackingProcessingTime(w)
        w2 == [w1 EXCEPT !.task.dateStarted = w1.now]
        w3 == setStatus(w2, RUNNING, NoExtra)
        w4 == callWebhooks(w3, "")
        r == Len(w.runs) + 1
        w5 == [w4 EXCEPT !.runs = Append(@, NewRun(buildRunnerOptions(w.task)))]
    IN IF Len(w.task.imageLinks) > 0
       THEN replenish(w5, r)
       ELSE launchEngine(w5, r)

startSingular(w) ==
    LET w1 == startTrackingProcessingTime(w)
        w2 == [w1 EXCEPT !.task.dateStarted = w1.now]
        w3 == setStatus(w2, RUNNING, NoExtra)
        r == Len(w.runs) + 1
        run == [NewRun({}) EXCEPT !.tasks = singularTasks(w.task),
                                  !.ended = TRUE]
    IN series([w3 EXCEPT !.runs = Append(@, run)], r)

\* start() without the test of the status
startUnguarded(w) ==
    [(IF w.task.kind = "Task" THEN startTask(w) ELSE startSingular(w))
       EXCEPT !.ret = [op |-> "start", result |-> TRUE]]

start(w) ==
    IF w.task.status.code = QUEUED
    THEN [(IF w.task.kind = "Task" THEN startTask(w) ELSE startSingular(w))
            EXCEPT !.ret = [op |-> "start", result |-> TRUE]]
    ELSE [w EXCEPT !.ret = [op |-> "start", result |-> FALSE]]

\* ---------------------------------------------------------- construction

\* name !== "" ? name : "Task of " + new Date().toISOString(): the date is
\* the time of construction, written here as its millisecond count
defaultName(name, time) ==
    IF name # "" THEN name ELSE "Task of " \o ToString(time)

\* new Task(uuid, projectId, imageLinks, name, options, webhook,
\*          skipPostProcessing, outputs, output, dateCreated, done)
NewTask(uuid, projectId, imageLinks, name, options, webhook, skipPostProcessing, outputs, dateCreated) ==
    [kind |-> "Task", uuid |-> uuid, projectId |-> projectId,
     imageLinks |-> imageLinks, name |-> defaultName(name, dateCreated),
     options |-> options, webhook |-> webhook,
     skipPostProcessing |-> skipPostProcessing, outputs |-> outputs,
     taskType |-> "", status |-> [code |-> QUEUED], progress |-> 0,
     output |-> <<>>, runningProcesses |-> <<>>,
     dateCreated |-> dateCreated, dateStarted |-> 0,
     processingTime |-> -1, timer |-> FALSE]

\* new SingularTask(uuid, projectId, name, options, webhook, taskType,
\*                  output, dateCreated, done)
NewSingularTask(uuid, projectId, name, options, webhook, taskType, dateCreated) ==
    [kind |-> "SingularTask", uuid |-> uuid, projectId |-> projectId,
     imageLinks |-> <<>>, name |-> defaultName(name, dateCreated),
     options |-> options, webhook |-> webhook,
     skipPostProcessing |-> FALSE, outputs |-> <<>>,
     taskType |-> taskType, status |-> [code |-> QUEUED], progress |-> 0,
     output |-> <<>>, runningProcesses |-> <<>>,
     dateCreated |-> dateCreated, dateStarted |-> 0,
     processingTime |-> -1, timer |-> FALSE]

\* ------------------------------------------------------------ the store

\* serialize(): the snapshot of a task, by class
serialize(t) ==
    IF t.kind = "Task"
    THEN [uuid |-> t.uuid, projectId |-> t.projectId, name |-> t.name,
          dateCreated |-> t.dateCreated, dateStarted |-> t.dateStarted,
          status |-> t.status, options |-> t.options, webhook |-> t.webhook,
          skipPostProcessing |-> (t.skipPostProcessing = TRUE),
          outputs |-> t.outputs, output |-> t.output]
    ELSE [uuid |-> t.uuid, projectId |-> t.projectId, name |-> t.name,
          options |-> t.options, dateCreated |-> t.dateCreated,
          dateStarted |-> t.dateStarted, status |-> t.status,
          taskType |-> t.taskType, webhook |-> t.webhook,
          output |-> t.output]

\* what the constructor called by CreateFromSerialized builds: a key the
\* snapshot lacks is undefined and takes the parameter's default;
\* SingularTask asserts options.length
constructFromSerialized(kind, taskJson) ==
    LET get(k, default) == IF k \in DOMAIN taskJson THEN taskJson[k]
                           ELSE default
    IN IF kind = "Task"
       THEN [NewTask(get("uuid", Undefined), get("projectId", Undefined),
                     get("imageLinks", <<>>), get("name", Undefined),
                     get("options", <<>>), get("webhook", ""),
                     get("skipPostProcessing", FALSE), get("outputs", <<>>),
                     get("dateCreated", 0))
               EXCEPT !.output = get("output", <<>>)]
       ELSE IF Len(get("options", <<>>)) = 0
       THEN [error |-> "AssertionError: options must be set"]
       ELSE [NewSingularTask(get("uuid", Undefined),
                             get("projectId", Undefined),
                             get("name", Undefined), get("options", <<>>),
                             get("webhook", ""), get("taskType", Undefined),
                             get("dateCreated", 0))
               EXCEPT !.output = get("output", <<>>)]

\* CreateFromSerialized(taskJson, done): construct, copy every key of the
\* snapshot onto the task, put a RUNNING task back to QUEUED; an assertion
\* of the constructor is thrown to the caller
CreateFromSerialized(kind, taskJson) ==
    LET task0 == constructFromSerialized(kind, taskJson)
        task1 == [k \in DOMAIN task0 \cup DOMAIN taskJson |->
                     IF k \in DOMAIN taskJson THEN taskJson[k] ELSE task0[k]]
    IN IF "error" \in DOMAIN task0 THEN task0
       ELSE IF task1.status.code = RUNNING
       THEN [task1 EXCEPT !.status.code = QUEUED]
       ELSE task1

\* config.js / S3.enabled() of a production process
ProductionConfig ==
    [test |-> FALSE, testSeconds |-> 0, testFailTasks |-> FALSE,
     testSkipOrthophotos |-> FALSE, testSkipDems |-> FALSE,
     has7z |-> TRUE, s3Enabled |-> FALSE, s3UploadEverything |-> FALSE]

\* the options a request carries, and the ones a restart may replace them by
RequestOptions == <<[name |-> "inputResourceId", value |-> "r1"]>>
NewOptions == <<[name |-> "dsm", value |-> "true"]>>

\* The tasks and configurations the lifecycle is explored for: a standalone
\* and a managed Task, a Task under the test configuration, a SingularTask.
Scenarios ==
    { [task |-> NewTask("u1", "", << <<"s3", "a.jpg">> >>, "", RequestOptions, "",
                        TRUE, <<"images.json">>, 1),
       config |-> ProductionConfig],
      [task |-> NewTask("u2", "p1", <<>>, "survey", RequestOptions,
                        "http://hook",
                        FALSE, <<"odm_dem/dsm.tif">>, 1),
       config |-> [ProductionConfig EXCEPT !.test = TRUE, !.s3Enabled = TRUE]],
      [task |-> NewSingularTask("u3", "p1", "ortho", RequestOptions,
                                "http://hook", "orthophoto", 1),
       config |-> [ProductionConfig EXCEPT !.s3Enabled = TRUE]] }

\* what a collaborator may report to a callback
TransportErrors == {NoError, "ETIMEDOUT"}
ExitReports ==
    { [err |-> "spawn ENOENT", code |-> "null"],
      [err |-> NoError, code |-> "0"],
      [err |-> NoError, code |-> "1"] }
TransportReports == { [err |-> e, code |-> "0"] : e \in TransportErrors }

stageReports(st, cfg) ==
    IF spawns(st, cfg) THEN ExitReports
    ELSE IF st.op = "sleep" THEN { [err |-> NoError, code |-> "0"] }
    ELSE TransportReports

\* in test mode the engine reports a canned success
engineReports(cfg) ==
    IF cfg.test THEN { [err |-> NoError, code |-> "0"] } ELSE ExitReports

\* ----------------------------------------------------------------- state

Init ==
    /\ \E s \in Scenarios : task = s.task /\ config = s.config
    /\ runs = <<>>
    /\ now = 1
    /\ signals = <<>>
    /\ hooks = <<>>
    /\ logFile = <<>>
    /\ cancelRequested = FALSE
    /\ reports = <<>>
    /\ chains = <<>>
    /\ supervised = NoCall

\* start(done); the model follows MaxRuns runs of a task
Start ==
    /\ task.status.code = QUEUED => Len(runs) < MaxRuns
    /\ Commit(start(World))

\* history of a successful cancel() of a RUNNING task: on the task, and on
\* every run whose done callback is still to come
noteCancel(w) ==
    [w EXCEPT !.cancelRequested = TRUE,
              !.runs = [r \in DOMAIN w.runs |->
                          IF w.runs[r].phase # "done"
                          THEN [w.runs[r] EXCEPT !.canceled = TRUE]
                          ELSE w.runs[r]]]

\* cancel(cb)
Cancel ==
    LET w == cancel(World)
    IN Commit(IF w.ret.error = NoError /\ task.status.code = RUNNING
              THEN noteCancel(w) ELSE w)

\* the options argument of restart(): left out, or a new option list
RestartArguments == {NoOptions, <<NewOptions>>}

\* restart(options, cb)
restartCall(options) ==
    LET w == restart(World, options)
    IN Commit(IF w.ret.error = NoError
              THEN [w EXCEPT !.cancelRequested = FALSE, !.reports = <<>>]
              ELSE w)

Restart == \E options \in RestartArguments : restartCall(options)

\* one download of the input fan-out calls back
DownloadDone == \E r \in DOMAIN runs, err \in TransportErrors :
    /\ runs[r].inflight > 0
    /\ Commit(downloadCallback(World, r, err))

\* the engine exits or fails to start
EngineDone == \E r \in DOMAIN runs, rep \in engineReports(config) :
    /\ runs[r].phase = "engine"
    /\ Commit(engineCallback(World, r, rep.err, rep.code))

\* the stage a run waits for calls back
StageDone == \E r \in DOMAIN runs :
    /\ runs[r].phase = "stage"
    /\ \E rep \in stageReports(runs[r].tasks[runs[r].idx], config) :
         Commit(stageCallback(World, r, rep.err, rep.code))

\* the upload of the log file started by finished() calls back
FinishDone == \E r \in DOMAIN runs, uploadError \in TransportErrors :
    /\ runs[r].phase = "finishing"
    /\ Commit(finishedUploaded(World, r, uploadError))

\* the setInterval callback of startTrackingProcessingTime
TimerTick ==
    /\ task.timer
    /\ Commit(updateProcessingTime(World, FALSE))

\* time passes
Tick ==
    /\ now < MaxClock
    /\ now' = now + 1
    /\ UNCHANGED <<task, config, runs, signals, hooks, logFile,
                   cancelRequested, reports, chains, supervised>>

Next ==
    \/ Start
    \/ Cancel
    \/ Restart
    \/ DownloadDone
    \/ EngineDone
    \/ StageDone
    \/ FinishDone
    \/ TimerTick
    \/ Tick

Spec == Init /\ [][Next]_vars

\* ------------------------------------------------------ progress reports

\* what the progress channel may deliver: out of range on both sides, the
\* two ends of the range, values inside
ProgressReports == {-10, 0, 40, 70, 100, 130}

\* updateProgress(globalProgress) called from outside with a report
ProgressReport == \E p \in ProgressReports :
    /\ Len(reports) < MaxReports
    /\ Commit([updateProgress(World, p) EXCEPT !.reports = Append(@, p)])

\* Reports arrive at a task that is started, canceled and restarted; the
\* callbacks of its runs are left out, the runs stay in flight.
NextProgress ==
    \/ ProgressReport
    \/ Start
    \/ Cancel
    \/ Restart

SpecProgress == Init /\ [][NextProgress]_vars

\* ----------------------------------------------------------------- the log

\* chunks of process output in one log that the model follows
MaxLines == 2

\* the text of the k-th chunk that arrives
chunkLine(k) == "chunk " \o ToString(k)

\* how many chunks have arrived in a log
arrived(output) ==
    Cardinality({i \in DOMAIN output :
                   \E k \in 1..MaxLines : output[i] = chunkLine(k)})

\* the lines of a chunk of engine output, once the colours are replaced
\* and the chunk is trimmed and split: the text of a line and whether
\* blanks surround it
EngineChunk(k) ==
    << [text |-> chunkLine(k), padded |-> TRUE],
       [text |-> "", padded |-> TRUE],
       [text |-> "end of " \o chunkLine(k), padded |-> FALSE] >>

\* line.trim()
trim(line) == line.text

RECURSIVE pushLines(_, _)
\* forEach(line => this.output.push(line.trim()))
pushLines(w, lines) ==
    IF lines = <<>> THEN w
    ELSE pushLines(pushOutput(w, trim(Head(lines))), Tail(lines))

\* a handler putting the newest chunk in front of the log
stageOutputPrepending(w, chunk) ==
    [w EXCEPT !.task.output = <<chunk>> \o @]

\* the outputReceived handler of the engine (Task.start)
engineOutputReceived(w, chunk) == pushLines(w, chunk)

\* the outputReceived handler of runPostProcess / runProcess
stageOutputReceived(w, chunk) == pushOutput(w, chunk)

\* the engine of a run writes a chunk of output
EngineOutput == \E r \in DOMAIN runs :
    /\ runs[r].phase = "engine"
    /\ arrived(task.output) < MaxLines
    /\ Commit(engineOutputReceived(World,
                                   EngineChunk(arrived(task.output) + 1)))

\* the process of the supervised stage a run waits for writes a chunk
StageOutput == \E r \in DOMAIN runs :
    /\ runs[r].phase = "stage"
    /\ runs[r].tasks[runs[r].idx].op \in {"runner", "postprocess"}
    /\ arrived(task.output) < MaxLines
    /\ Commit(stageOutputReceived(World, chunkLine(arrived(task.output) + 1)))

\* restart(undefined, cb): the options are left as they are
RestartAgain == restartCall(NoOptions)

\* The lifecycle of a task and the output of its processes.  Time is
\* left out.
NextLog ==
    \/ Start
    \/ Cancel
    \/ RestartAgain
    \/ EngineDone
    \/ StageDone
    \/ FinishDone
    \/ EngineOutput
    \/ StageOutput

\* A standalone task whose processes write output: the engine, then the
\* post-processing script; 7z writes to no handler.
InitLog ==
    /\ task = NewTask("u6", "", <<>>, "survey", RequestOptions, "", FALSE,
                      <<"images.json">>, 1)
    /\ config = ProductionConfig
    /\ runs = <<>>
    /\ now = 1
    /\ signals = <<>>
    /\ hooks = <<>>
    /\ logFile = <<>>
    /\ cancelRequested = FALSE
    /\ reports = <<>>
    /\ chains = <<>>
    /\ supervised = NoCall

SpecLog == InitLog /\ [][NextLog]_vars

\* ------------------------------------------------------------ the store

\* restart(options, cb) where the new option list may also be empty
RestartAny ==
    \E options \in RestartArguments \cup {<< <<>> >>} : restartCall(options)

\* The states a snapshot may be taken in: those of the lifecycle, and of
\* restarts with any option list.  Time is left out.
NextStore ==
    \/ Start
    \/ Cancel
    \/ RestartAny
    \/ DownloadDone
    \/ EngineDone
    \/ StageDone
    \/ FinishDone

SpecStore == Init /\ [][NextStore]_vars

\* -------------------------------------------------------- notifications

\* The closure of one notifyCallback chain of callWebhooks.
\*   method   request.post (Task) or request.put (SingularTask)
\*   hook     the URL
\*   json     the payload, built once by the callWebhooks call
\*   attempt  the argument of the notifyCallback call that ran last
\*   phase    "calling"    a request is outstanding
\*            "waiting"    a setTimeout is pending
\*            "delivered"  the request was answered with 200
\*            "abandoned"  notifyCallback returned without a request
\*   calls    history: the requests issued
\*   answers  history: for each answered request, whether it was a 200
\*   delays   history: the delay of each setTimeout, in ms
NewChain(kind, dispatch) ==
    [method |-> IF kind = "Task" THEN "post" ELSE "put",
     hook |-> dispatch.hook, json |-> dispatch.json,
     attempt |-> 0, phase |-> "waiting",
     calls |-> 0, answers |-> <<>>, delays |-> <<>>]

\* notifyCallback giving up one attempt earlier
notifyCallbackFiveCalls(chain, attempt) ==
    IF attempt >= 5
    THEN [chain EXCEPT !.attempt = attempt, !.phase = "abandoned"]
    ELSE [chain EXCEPT !.attempt = attempt, !.phase = "calling",
                       !.calls = @ + 1]

\* notifyCallback(attempt)
notifyCallback(chain, attempt) ==
    IF attempt > 5
    THEN [chain EXCEPT !.attempt = attempt, !.phase = "abandoned"]
    ELSE [chain EXCEPT !.attempt = attempt, !.phase = "calling",
                       !.calls = @ + 1]

\* the request callback waiting 5000 ms more than the attempt asks for
requestCallbackLate(chain, error, statusCode) ==
    IF error # NoError \/ statusCode # 200
    THEN [chain EXCEPT !.phase = "waiting",
                       !.answers = Append(@, FALSE),
                       !.delays = Append(@, (chain.attempt + 1) * 5000)]
    ELSE [chain EXCEPT !.phase = "delivered",
                       !.answers = Append(@, TRUE)]

\* the callback of request.post / request.put: (error, response)
requestCallback(chain, error, statusCode) ==
    IF error # NoError \/ statusCode # 200
    THEN [chain EXCEPT !.phase = "waiting",
                       !.answers = Append(@, FALSE),
                       !.delays = Append(@, chain.attempt * 5000)]
    ELSE [chain EXCEPT !.phase = "delivered",
                       !.answers = Append(@, TRUE)]

\* the callback of setTimeout
timerCallback(chain) == notifyCallback(chain, chain.attempt + 1)

\* what the endpoint may answer: a transport error (no response), a
\* response that is not a 200, a 200
Responses ==
    { [error |-> "ECONNREFUSED", statusCode |-> 0],
      [error |-> NoError, statusCode |-> 500],
      [error |-> NoError, statusCode |-> 204],
      [error |-> NoError, statusCode |-> 200] }

\* A handler whose notifications may be followed: callWebhooks calls
\* notifyCallback(0) for each before it returns.
Followed(w) ==
    /\ Apply(w)
    /\ \/ chains' = chains
       \/ /\ Len(chains) < MaxChains
          /\ \E i \in DOMAIN w.hooks :
               chains' = Append(chains,
                   notifyCallback(NewChain(w.task.kind, w.hooks[i]), 0))

NotifyStart ==
    /\ task.status.code = QUEUED => Len(runs) < MaxRuns
    /\ Followed(start(World))

NotifyEngineDone == \E r \in DOMAIN runs, rep \in engineReports(config) :
    /\ runs[r].phase = "engine"
    /\ Followed(engineCallback(World, r, rep.err, rep.code))

NotifyStageDone == \E r \in DOMAIN runs :
    /\ runs[r].phase = "stage"
    /\ \E rep \in stageReports(runs[r].tasks[runs[r].idx], config) :
         Followed(stageCallback(World, r, rep.err, rep.code))

NotifyFinishDone == \E r \in DOMAIN runs, uploadError \in TransportErrors :
    /\ runs[r].phase = "finishing"
    /\ Followed(finishedUploaded(World, r, uploadError))

\* callWebhooks(resourceType) called from outside
CallWebhooks == \E resourceType \in {"", "mesh"} :
    Followed(callWebhooks(World, resourceType))

\* the endpoint answers the outstanding request of a chain
Respond == \E c \in DOMAIN chains, res \in Responses :
    /\ chains[c].phase = "calling"
    /\ chains' = [chains EXCEPT
                    ![c] = requestCallback(@, res.error, res.statusCode)]
    /\ UNCHANGED <<task, config, runs, now, signals, hooks, logFile,
                   cancelRequested, reports, supervised>>

\* the timer of a chain fires
RetryTimer == \E c \in DOMAIN chains :
    /\ chains[c].phase = "waiting"
    /\ chains' = [chains EXCEPT ![c] = timerCallback(@)]
    /\ UNCHANGED <<task, config, runs, now, signals, hooks, logFile,
                   cancelRequested, reports, supervised>>

\* One run of a task and the chains of its notifications.
NextNotify ==
    \/ NotifyStart
    \/ Cancel
    \/ DownloadDone
    \/ NotifyEngineDone
    \/ NotifyStageDone
    \/ NotifyFinishDone
    \/ CallWebhooks
    \/ Respond
    \/ RetryTimer

requestPending == \E c \in DOMAIN chains : chains[c].phase = "calling"
timerPending == \E c \in DOMAIN chains : chains[c].phase = "waiting"

\* Every request is answered and every timer fires: weak fairness of
\* Respond and RetryTimer, written out as for SpecLive.
SpecNotify ==
    /\ Init
    /\ [][NextNotify]_vars
    /\ ([]<>(~requestPending) \/ []<><<Respond>>_vars)
    /\ ([]<>(~timerPending) \/ []<><<RetryTimer>>_vars)

\* ------------------------------------------------------------- pipelines

\* The output lists a request may carry: none (the default list), the root
\* path or the canonical artifact of one group, several groups, the
\* rasters, a path of no group.
RequestedOutputs ==
    { <<>>,
      <<"odm_georeferencing">>,
      <<"odm_georeferencing/odm_georeferenced_model.laz">>,
      <<"odm_orthophoto">>,
      <<"odm_orthophoto/odm_orthophoto.tif">>,
      <<"odm_texturing">>,
      <<"odm_texturing/odm_textured_model.obj">>,
      <<"odm_georeferencing", "odm_texturing">>,
      <<"odm_dem/dsm.tif", "odm_dem/dtm.tif">>,
      <<"images.json">> }

\* config.js and S3.enabled(): with or without remote storage, production
\* or one of the test modes that leave outputs out
PipelineConfigs ==
    { [ProductionConfig EXCEPT !.s3Enabled = s3, !.s3UploadEverything = all,
                               !.test = flags[1],
                               !.testSkipOrthophotos = flags[2],
                               !.testSkipDems = flags[3]] :
        s3 \in BOOLEAN, all \in BOOLEAN,
        flags \in { <<FALSE, FALSE, FALSE>>, <<TRUE, FALSE, FALSE>>,
                    <<TRUE, TRUE, FALSE>>, <<TRUE, FALSE, TRUE>> } }

\* the image links of a request with more links than the download limit
SixLinks ==
    << <<"s3", "1.jpg">>, <<"s3", "2.jpg">>, <<"s3", "3.jpg">>,
       <<"s3", "4.jpg">>, <<"s3", "5.jpg">>, <<"s3", "6.jpg">> >>

\* Tasks of every mode, output list and configuration without image
\* links, and one task with six of them.
PipelineScenarios ==
    { [task |-> NewTask("u4", projectId, <<>>, "survey", RequestOptions,
                        "http://hook", FALSE, outputs, 1),
       config |-> cfg] :
        projectId \in {"", "p1"}, outputs \in RequestedOutputs,
        cfg \in PipelineConfigs }
    \cup
    { [task |-> NewTask("u5", "p1", SixLinks, "survey", RequestOptions,
                        "http://hook", FALSE, <<"odm_georeferencing">>, 1),
       config |-> [ProductionConfig EXCEPT !.s3Enabled = TRUE]] }

InitPipeline ==
    /\ \E s \in PipelineScenarios : task = s.task /\ config = s.config
    /\ runs = <<>>
    /\ now = 1
    /\ signals = <<>>
    /\ hooks = <<>>
    /\ logFile = <<>>
    /\ cancelRequested = FALSE
    /\ reports = <<>>
    /\ chains = <<>>
    /\ supervised = NoCall

\* One run of each task, which may be canceled.
NextPipeline ==
    \/ Start
    \/ Cancel
    \/ DownloadDone
    \/ EngineDone
    \/ StageDone
    \/ FinishDone

SpecPipeline == InitPipeline /\ [][NextPipeline]_vars

\* ---------------------------------------------------- process supervisor

\* The runners of processRunner.js: the command, the options a call must
\* define and the skipOnTest argument of makeRunner (its default is true).
\* No runner passes an outputTestFile.
Runners ==
    [runPostProcessingScript |->
        [command |-> "postprocess.sh",
         requiredOptions |-> <<"projectFolderPath">>, skipOnTest |-> TRUE],
     sevenZip |->
        [command |-> "7z",
         requiredOptions |-> <<"destination", "pathsToArchive", "cwd">>,
         skipOnTest |-> FALSE],
     sevenUnzip |->
        [command |-> "7z",
         requiredOptions |-> <<"destination", "file">>, skipOnTest |-> FALSE],
     unzip |->
        [command |-> "unzip",
         requiredOptions |-> <<"destination", "file">>, skipOnTest |-> FALSE],
     runPotreeConverter |->
        [command |-> "PotreeConverter",
         requiredOptions |-> <<"input", "outDir">>, skipOnTest |-> FALSE],
     runGenerateCog |->
        [command |-> "gdal_translate",
         requiredOptions |-> <<"inputPath", "outputPath">>,
         skipOnTest |-> FALSE],
     runIfcConverter |->
        [command |-> "IfcConvert",
         requiredOptions |-> <<"inputFile", "outputFile">>,
         skipOnTest |-> FALSE],
     runNxsBuild |->
        [command |-> "nxsbuild",
         requiredOptions |-> <<"inputOBJFile", "inputMTLFile", "outputFile">>,
         skipOnTest |-> FALSE],
     runNxsCompress |->
        [command |-> "nxscompress",
         requiredOptions |-> <<"inputFile", "outputFile">>,
         skipOnTest |-> FALSE],
     runFixBB |->
        [command |-> "lasinfo",
         requiredOptions |-> <<"inputFile">>, skipOnTest |-> FALSE],
     runClassify |->
        [command |-> "pdal",
         requiredOptions |-> <<"inputFile">>, skipOnTest |-> FALSE],
     runFindSrs |->
        [command |-> "/usr/bin/node",
         requiredOptions |-> <<"inputFile", "outputFile">>,
         skipOnTest |-> FALSE],
     runSgCompare |->
        [command |-> "python",
         requiredOptions |-> <<"prevFile", "nextFile", "outputFile">>,
         skipOnTest |-> FALSE],
     runPdalTranslate |->
        [command |-> "pdal",
         requiredOptions |-> <<"inputFile", "outputFile">>,
         skipOnTest |-> FALSE],
     runBundleAdjustment |->
        [command |-> "/usr/bin/node",
         requiredOptions |-> <<"projectFolderPath">>, skipOnTest |-> FALSE]]

\* the values of an option: the key is not there, it is null, it is set
OptionValues == {"undefined", "null", "value"}

\* the required options that are undefined, in the order of the asserts
undefinedOptions(requiredOptions, options) ==
    SelectSeq(requiredOptions, LAMBDA o : options[o] = "undefined")

\* a call of done(err, code, signal)
Exit(err, code, signal) == [err |-> err, code |-> code, signal |-> signal]

\* What a call leaves behind when the runner returns:
\*   thrown   the message of the exception the call ended with, or ""
\*   process  "none", or where the child process stands
\*   outputs  the calls of outputReceived, in order
\*   exits    the calls of done, in order
Supervised(name, options, outputReceived, thrown, process, outputs, exits) ==
    [runner |-> name, options |-> options, outputReceived |-> outputReceived,
     thrown |-> thrown, process |-> process, outputs |-> outputs,
     exits |-> exits]

\* a runner that spawns whatever options it is given
makeRunnerUnchecked(name, options, outputReceived, test) ==
    Supervised(name, options, outputReceived, "", "running",
               IF outputReceived
               THEN <<"About to run: " \o Runners[name].command>> ELSE <<>>,
               <<>>)

\* the function makeRunner returns, called with (options, done,
\* outputReceived); outputReceived tells whether the third argument is
\* given, test is config.test
makeRunner(name, options, outputReceived, test) ==
    LET runner == Runners[name]
        missing == undefinedOptions(runner.requiredOptions, options)
        about == IF outputReceived
                 THEN <<"About to run: " \o runner.command>> ELSE <<>>
    IN IF missing # <<>>
       THEN Supervised(name, options, outputReceived,
                       Head(missing) \o " must be defined", "none",
                       <<>>, <<>>)
       ELSE IF test /\ runner.skipOnTest
       THEN Supervised(name, options, outputReceived, "", "none", about,
                       <<Exit(NoError, "0", "null")>>)
       ELSE Supervised(name, options, outputReceived, "", "running", about,
                       <<>>)

\* chunks of output of one process that the model follows
MaxChunks == 1

\* the events 'exit' (code, signal) and 'error' of a child process, as
\* the calls of done their listeners make
ProcessEvents ==
    { Exit(NoError, "0", "null"), Exit(NoError, "1", "null"),
      Exit(NoError, "null", "SIGKILL"),
      Exit("spawn ENOENT", "undefined", "undefined"),
      Exit("kill EPERM", "undefined", "undefined") }

InitRunner == Init

\* a stage calls a runner
RunnerCall ==
    \E name \in DOMAIN Runners, outputReceived \in BOOLEAN :
      \E options \in [elements(Runners[name].requiredOptions) -> OptionValues] :
        /\ supervised = NoCall
        /\ supervised' = makeRunner(name, options, outputReceived, config.test)
        /\ UNCHANGED <<task, config, runs, now, signals, hooks, logFile,
                       cancelRequested, reports, chains>>

\* the child process writes to stdout or stderr
ProcessOutput ==
    /\ supervised # NoCall
    /\ supervised.process = "running"
    /\ supervised.outputReceived
    /\ Len(supervised.outputs) <= MaxChunks
    /\ supervised' = [supervised EXCEPT !.outputs = Append(@, "chunk")]
    /\ UNCHANGED <<task, config, runs, now, signals, hooks, logFile,
                   cancelRequested, reports, chains>>

\* the child process emits 'exit': the listener calls
\* done(null, code, signal).  The event comes once, while the process
\* runs: also after an 'error' that left it running.
ProcessExit ==
    \E event \in ProcessEvents :
        /\ event.err = NoError
        /\ supervised # NoCall
        /\ supervised.process \in {"running", "errored"}
        /\ supervised' = [supervised EXCEPT !.process = "exited",
                                            !.exits = Append(@, event)]
        /\ UNCHANGED <<task, config, runs, now, signals, hooks, logFile,
                       cancelRequested, reports, chains>>

\* the child process emits 'error': the listener is done itself, called
\* with the error alone.  A process that could not be spawned has no
\* 'exit' to come; one that could not be signalled runs on.
ProcessError ==
    \E event \in ProcessEvents :
        /\ event.err # NoError
        /\ supervised # NoCall
        /\ supervised.process = "running"
        /\ supervised' = [supervised EXCEPT
                            !.process = IF event.err = "spawn ENOENT"
                                        THEN "failed" ELSE "errored",
                            !.exits = Append(@, event)]
        /\ UNCHANGED <<task, config, runs, now, signals, hooks, logFile,
                       cancelRequested, reports, chains>>

NextRunner ==
    \/ RunnerCall
    \/ ProcessOutput
    \/ ProcessExit
    \/ ProcessError

SpecRunner == InitRunner /\ [][NextRunner]_vars

\* ------------------------------------------------------------- liveness

\* The callbacks of a run are delivered by the event loop: a download, the
\* engine, a stage or the upload of the log that is pending calls back
\* sooner or later.  Time is left out.
NextLive ==
    \/ Start
    \/ Cancel
    \/ Restart
    \/ DownloadDone
    \/ EngineDone
    \/ StageDone
    \/ FinishDone

\* a callback of each kind is pending: the state in which the action that
\* delivers it is enabled (every delivery changes the run it is for)
downloadPending == \E r \in DOMAIN runs : runs[r].inflight > 0
enginePending == \E r \in DOMAIN runs : runs[r].phase = "engine"
stagePending == \E r \in DOMAIN runs : runs[r].phase = "stage"
finishPending == \E r \in DOMAIN runs : runs[r].phase = "finishing"

\* Weak fairness of the four deliveries, WF_vars(A) written out as
\* []<>(~ENABLED <<A>>_vars) \/ []<><<A>>_vars with the enabling state
\* given above.
SpecLive ==
    /\ Init
    /\ [][NextLive]_vars
    /\ ([]<>(~downloadPending) \/ []<><<DownloadDone>>_vars)
    /\ ([]<>(~enginePending) \/ []<><<EngineDone>>_vars)
    /\ ([]<>(~stagePending) \/ []<><<StageDone>>_vars)
    /\ ([]<>(~finishPending) \/ []<><<FinishDone>>_vars)

\* ------------------------------------------------------------- claims

\* the status changes of the state table
StatusTable ==
    { <<QUEUED, RUNNING>>, <<RUNNING, COMPLETED>>, <<RUNNING, FAILED>>,
      <<RUNNING, CANCELED>>, <<QUEUED, CANCELED>>,
      <<COMPLETED, QUEUED>>, <<FAILED, QUEUED>>, <<CANCELED, QUEUED>> }

\* C1: every change of the status code, by start(), cancel(), restart() or
\* a completion callback, is a change of the state table; in particular a
\* CANCELED task does not become COMPLETED or FAILED and a COMPLETED or
\* FAILED task does not become CANCELED.
StatusFollowsTable ==
    [][task'.status.code # task.status.code
         => <<task.status.code, task'.status.code>> \in StatusTable]_vars

\* C2: start() on a task that is not QUEUED returns false and changes
\* nothing: status, timestamps, processing time, process set and log stay
\* as they are, no run is created, nothing is signalled or notified.
StartRefusedChangesNothing ==
    task.status.code # QUEUED
      => start(World) = [World EXCEPT !.ret = [op |-> "start", result |-> FALSE]]

\* start() is refused while a run of the task is at one of its stages
StartRefusedWhileRunning ==
    /\ task.status.code = RUNNING
    /\ \E r \in DOMAIN runs : runs[r].phase = "stage"
    /\ start(World).ret = [op |-> "start", result |-> FALSE]
    /\ start(World).runs = runs

\* C3: start() on a QUEUED task returns true and, when it returns, the
\* status is RUNNING and dateStarted is not zero; the run it created then
\* waits for a download, the engine or a stage to call back, its done
\* callback not yet called.
StartSetsRunningBeforeReturn ==
    task.status.code = QUEUED
      => LET w == start(World)
             r == Len(runs) + 1
         IN /\ w.ret = [op |-> "start", result |-> TRUE]
            /\ w.task.status = [code |-> RUNNING]
            /\ w.task.dateStarted # 0
            /\ w.task.timer
            /\ Len(w.runs) = r
            /\ w.runs[r].phase \in {"download", "engine", "stage"}
            /\ w.runs[r].done = <<>>

\* start() has returned and no callback of the run has been called yet
StartedAwaitingDownload ==
    /\ task.status = [code |-> RUNNING]
    /\ task.dateStarted # 0
    /\ Len(runs) = 1
    /\ runs[1].phase = "download" /\ runs[1].inflight = 1
    /\ runs[1].started = 0 /\ runs[1].done = <<>>

\* C4: every successful start() of a task with a registered webhook hands
\* the dispatcher a notification whose payload shows status RUNNING, for
\* Task and for SingularTask.
StartNotifiesCreation ==
    [][(task.status.code = QUEUED /\ task'.status.code = RUNNING
          /\ Len(task.webhook) > 3)
         => \E i \in DOMAIN hooks' :
              /\ hooks'[i].hook = task.webhook
              /\ hooks'[i].json.info.status.code = RUNNING]_vars

\* C5: cancel() on a RUNNING task returns without error, the status
\* CANCELED and runningProcesses empty; a second cancel(), no restart() in
\* between, returns an error and leaves the status CANCELED.
CancelOnceOnly ==
    /\ task.status.code = RUNNING
         => LET w == cancel(World)
            IN /\ w.ret = [op |-> "cancel", error |-> NoError]
               /\ w.task.status = [code |-> CANCELED]
               /\ w.task.runningProcesses = <<>>
    /\ cancelRequested
         => LET w == cancel(World)
            IN /\ w.ret.error # NoError
               /\ w.task.status.code = CANCELED

\* C6: once cancel() has succeeded on a RUNNING task, the runs in flight
\* start nothing more: no engine, no stage, no process.
NoWorkAfterCancel ==
    [][\A r \in DOMAIN runs :
         runs[r].canceled => runs'[r].started = runs[r].started]_vars

\* C7: runningProcesses is empty unless the status is RUNNING.
ProcessesOnlyWhileRunning ==
    task.status.code # RUNNING => task.runningProcesses = <<>>

\* C8: restart() returns without error exactly when the status is
\* COMPLETED, FAILED or CANCELED; on a QUEUED or RUNNING task it returns an
\* error and leaves the status as it is.
RestartOnlyFromTerminal ==
    \A options \in RestartArguments :
      LET w == restart(World, options)
      IN /\ w.ret.error = NoError
              <=> task.status.code \in {COMPLETED, FAILED, CANCELED}
         /\ task.status.code \in {QUEUED, RUNNING}
              => /\ w.ret = [op |-> "restart",
                             error |-> "Task cannot be restarted"]
                 /\ w.task.status = task.status

\* restart() is refused while a run of the RUNNING task is in flight
RestartRefusedWhileRunning ==
    /\ task.status.code = RUNNING
    /\ \E r \in DOMAIN runs : runs[r].phase # "done"
    /\ restart(World, <<NewOptions>>).ret.error = "Task cannot be restarted"
    /\ restart(World, <<NewOptions>>).task.status = task.status

\* C9: a successful restart() leaves status QUEUED without error message,
\* progress 0, the log empty, dateStarted 0 and processingTime -1; options
\* is the argument when one is given and unchanged when it is left out;
\* uuid, projectId, webhook and outputs are unchanged.
RestartFrame ==
    \A options \in RestartArguments :
      task.status.code \in {COMPLETED, FAILED, CANCELED}
        => LET w == restart(World, options)
           IN /\ w.task.status = [code |-> QUEUED]
              /\ w.task.progress = 0
              /\ w.task.output = <<>>
              /\ w.task.dateStarted = 0
              /\ w.task.processingTime = -1
              /\ w.task.options = IF options = NoOptions
                                  THEN task.options ELSE options[1]
              /\ w.task.uuid = task.uuid
              /\ w.task.projectId = task.projectId
              /\ w.task.webhook = task.webhook
              /\ w.task.outputs = task.outputs

\* a FAILED task with an error message, a log and progress 100 is restarted
\* with new options
RestartOfFailedTask ==
    /\ task.status.code = FAILED /\ "errorMessage" \in DOMAIN task.status
    /\ task.progress = 100 /\ task.output # <<>>
    /\ task.dateStarted # 0 /\ task.processingTime # -1
    /\ task.options # NewOptions
    /\ LET w == restart(World, <<NewOptions>>)
       IN /\ w.ret.error = NoError
          /\ w.task.status = [code |-> QUEUED]
          /\ w.task.options = NewOptions
          /\ w.task.output = <<>>

\* C10: a refused cancel() (status CANCELED) and a refused restart() (status
\* QUEUED or RUNNING) return their error and change nothing: status and its
\* error message, progress, log, options, runningProcesses, processingTime
\* and everything else stay as they are.
RefusalChangesNothing ==
    /\ task.status.code = CANCELED
         => cancel(World) = [World EXCEPT !.ret =
                               [op |-> "cancel",
                                error |-> "Task already cancelled"]]
    /\ task.status.code \in {QUEUED, RUNNING}
         => \A options \in RestartArguments :
              restart(World, options)
                = [World EXCEPT !.ret = [op |-> "restart",
                                         error |-> "Task cannot be restarted"]]

\* cancel() is refused on a CANCELED task whose list of handles is not
\* empty: nothing is signalled, the list stays
CancelRefusedWithHandles ==
    /\ task.status.code = CANCELED
    /\ task.runningProcesses # <<>>
    /\ cancel(World).ret.error = "Task already cancelled"
    /\ cancel(World).signals = <<>>
    /\ cancel(World).task = task

RECURSIVE runningMaximum(_)
\* the maximum of 0 and of the reports, each clamped to [0, 100]
runningMaximum(seq) ==
    IF seq = <<>> THEN 0
    ELSE Max(runningMaximum(SubSeq(seq, 1, Len(seq) - 1)),
             Min(100, Max(0, seq[Len(seq)])))

\* C11: the stored progress is the maximum of 0 and of the reports since
\* the task was created or last restarted, each clamped to [0, 100]; it
\* lies in [0, 100] and no step but a successful restart() lowers it.
ProgressIsRunningMaximum ==
    /\ [](task.progress = runningMaximum(reports))
    /\ [](task.progress \in 0..100)
    /\ [][task'.progress < task.progress
            => task.status.code # QUEUED /\ task'.status.code = QUEUED]_vars

\* out-of-order and out-of-range reports reached a task with a run in
\* flight: 70, then 40, then 130
ReportsOutOfOrder ==
    /\ reports = <<70, 40, 130>>
    /\ task.progress = 100
    /\ \E r \in DOMAIN runs : runs[r].phase # "done"

\* C12: every run a successful start() launched reaches finalize, whatever
\* its outcome; the step that finalizes it leaves the progress at exactly
\* 100 and the processing-time timer stopped, and start()'s completion
\* callback is called once by that step and never otherwise.
FinalizeAlwaysRuns ==
    /\ \A r \in 1..MaxRuns :
         (r \in DOMAIN runs) ~> (r \in DOMAIN runs /\ runs[r].phase = "done")
    /\ [](\A r \in DOMAIN runs :
            Len(runs[r].done) = IF runs[r].phase = "done" THEN 1 ELSE 0)
    /\ [][\A r \in DOMAIN runs' :
            /\ r \in DOMAIN runs => runs[r].phase # "done"
            /\ runs'[r].phase = "done"
            => task'.progress = 100 /\ ~task'.timer]_vars

\* a run that failed in a stage has been finalized
FailedRunFinalized ==
    \E r \in DOMAIN runs :
        /\ runs[r].phase = "done"
        /\ runs[r].done # <<NoError>>
        /\ task.status.code = FAILED
        /\ task.progress = 100

\* C13: when a run ends in failure (the task is FAILED by the run, or
\* start()'s callback is handed an error), the run has written the log to
\* the run-log file and has called the upload of it, for Task and for
\* SingularTask.
FailedRunPersistsLog ==
    \A r \in DOMAIN runs :
        /\ runs[r].phase = "done"
        /\ runs[r].done # <<NoError>>
        => runs[r].saved /\ runs[r].uploadTried

\* the task has not been canceled as far as run r is concerned
notCanceled(r) == task.status.code # CANCELED /\ ~runs[r].canceled

\* what a failing report leaves behind: the task FAILED, the run at
\* finalize, no further stage invoked
failsRun(w, r) ==
    /\ w.task.status.code = FAILED
    /\ w.runs[r].phase \in {"finishing", "done"}
    /\ w.runs[r].started = runs[r].started

\* C14: when the stage a run waits for reports an error (a transport
\* error, a process that could not be spawned, a non-zero exit) and the
\* task has not been canceled, the status becomes FAILED and the run goes
\* to finalize without invoking any stage; a run at or past finalize
\* never invokes a stage again (neither the failed one nor a later one).
StageErrorFailsRun ==
    /\ [](\A r \in DOMAIN runs : notCanceled(r) =>
            /\ runs[r].phase = "stage" =>
                 \A rep \in stageReports(runs[r].tasks[runs[r].idx], config) :
                     stageError(runs[r].tasks[runs[r].idx], rep.err, rep.code)
                         # NoError
                     => failsRun(stageCallback(World, r, rep.err, rep.code), r)
            /\ runs[r].phase = "engine" =>
                 \A rep \in engineReports(config) :
                     rep.err # NoError \/ rep.code # "0"
                     => failsRun(engineCallback(World, r, rep.err, rep.code), r)
            /\ runs[r].phase = "download" /\ runs[r].inflight > 0 =>
                 \A err \in TransportErrors \ {NoError} :
                     failsRun(downloadCallback(World, r, err), r))
    /\ [][\A r \in DOMAIN runs :
            runs[r].phase \in {"finishing", "done"}
            => /\ runs'[r].started = runs[r].started
               /\ runs'[r].phase \in {"finishing", "done"}]_vars

\* the engine of a Task succeeded, a later stage failed and the run is at
\* finalize
PostProcessingStageFailed ==
    \E r \in DOMAIN runs :
        /\ task.kind = "Task"
        /\ runs[r].phase = "finishing"
        /\ runs[r].error # NoError
        /\ runs[r].started >= 2
        /\ ~runs[r].canceled
        /\ task.status.code = FAILED

\* C15: whenever the status is FAILED because a stage of a run failed (a
\* download, the start of the engine, a non-zero exit of the engine, a
\* post-processing, archive or upload stage), the status carries the
\* error message in its extra data.
FailedCarriesMessage ==
    task.status.code = FAILED => "errorMessage" \in DOMAIN task.status

\* the task reconstructed from the snapshot of the task as it is
restored == CreateFromSerialized(task.kind, serialize(task))

\* the run start() launches for task t
launched(t) == start([World EXCEPT !.task = t, !.runs = <<>>]).runs

\* C16: the task reconstructed from the snapshot of a RUNNING task is
\* QUEUED, start() succeeds on it and launches the pipeline from the top,
\* that is the run start() launches for the task itself when it is
\* QUEUED; from a snapshot with another status the task is reconstructed
\* with that status code.
RunningRestoredAsQueued ==
    LET t == restored
    IN /\ "error" \notin DOMAIN t
       /\ task.status.code # RUNNING => t.status.code = task.status.code
       /\ task.status.code = RUNNING
              => /\ t.status.code = QUEUED
                 /\ start([World EXCEPT !.task = t]).ret.result
                 /\ launched(t)
                      = launched([task EXCEPT !.status = [code |-> QUEUED]])

\* C17: reconstruct(serialize(t)) has the identity, owner project, name,
\* dateCreated, dateStarted, options, webhook, requested outputs and log
\* of t, the status of t with RUNNING mapped to QUEUED, no running
\* process and no processing-time timer.
RoundTrip ==
    LET t == restored
    IN /\ "error" \notin DOMAIN t
       /\ \A k \in {"uuid", "projectId", "name", "dateCreated",
                    "dateStarted", "options", "webhook", "outputs",
                    "output"} : t[k] = task[k]
       /\ t.status = IF task.status.code = RUNNING
                     THEN [task.status EXCEPT !.code = QUEUED]
                     ELSE task.status
       /\ t.runningProcesses = <<>>
       /\ ~t.timer

\* the chain is over: delivered, or given up
terminated(chain) == chain.phase \in {"delivered", "abandoned"}

\* the calls min(k + 1, 6) allows for the answers a chain got, k the
\* index (from 0) of the first 200, none if no answer is a 200
callsAllowed(answers) ==
    IF \E i \in DOMAIN answers : answers[i]
    THEN Min((CHOOSE i \in DOMAIN answers :
                answers[i] /\ \A j \in 1..(i - 1) : ~answers[j]), 6)
    ELSE 6

\* C18: a chain that is over has issued min(k + 1, 6) calls, k the index
\* of the first attempt answered with a 200; nothing is called after a
\* 200; an endpoint that never answers 200 is called for the attempts 0
\* to 5 and then the chain is given up; every chain comes to its end and
\* stays there.
DeliveryCallsBounded ==
    /\ [](\A c \in DOMAIN chains :
            LET chain == chains[c]
            IN /\ chain.calls <= 6
               /\ chain.calls = Len(chain.answers)
                                  + (IF chain.phase = "calling" THEN 1 ELSE 0)
               /\ \A i \in DOMAIN chain.answers :
                      chain.answers[i] => i = Len(chain.answers)
               /\ chain.phase = "calling" => chain.attempt = chain.calls - 1
               /\ terminated(chain) =>
                      chain.calls = callsAllowed(chain.answers)
               /\ chain.phase = "abandoned" =>
                      /\ chain.calls = 6
                      /\ \A i \in DOMAIN chain.answers : ~chain.answers[i])
    /\ [][\A c \in DOMAIN chains :
            terminated(chains[c]) => chains'[c] = chains[c]]_vars
    /\ \A c \in 1..MaxChains :
         (c \in DOMAIN chains) ~> (c \in DOMAIN chains /\ terminated(chains[c]))

\* an endpoint that failed six times: the chain is given up
ChainAbandoned ==
    \E c \in DOMAIN chains :
        /\ chains[c].phase = "abandoned"
        /\ chains[c].calls = 6
        /\ Len(chains[c].answers) = 6

\* C19: the delay scheduled after the failed attempt a is a * 5000 ms, so
\* the delays of a chain are 0, 5000, 10000, 15000, 20000 (and 25000 after
\* attempt 5) in that order; the attempt counter goes up by exactly 1 per
\* retry.
RetryDelays ==
    /\ [](\A c \in DOMAIN chains :
            /\ \A i \in DOMAIN chains[c].delays :
                   chains[c].delays[i] = (i - 1) * 5000
            /\ Len(chains[c].delays) =
                   Cardinality({i \in DOMAIN chains[c].answers :
                                   ~chains[c].answers[i]})
            /\ chains[c].phase = "waiting" =>
                   chains[c].delays[Len(chains[c].delays)]
                       = chains[c].attempt * 5000)
    /\ [][\A c \in DOMAIN chains :
            /\ chains'[c].attempt \in
                   {chains[c].attempt, chains[c].attempt + 1}
            /\ chains'[c].attempt = chains[c].attempt + 1
                   <=> chains[c].phase = "waiting"
                         /\ chains'[c].phase # "waiting"]_vars

\* the endpoint failed on the attempts 0 to 4 and answered 200 on attempt 5
DeliveredAtLastAttempt ==
    \E c \in DOMAIN chains :
        /\ chains[c].phase = "delivered"
        /\ chains[c].calls = 6
        /\ chains[c].attempt = 5
        /\ chains[c].delays = <<0, 5000, 10000, 15000, 20000>>

\* the part of the state that belongs to the task
taskState == <<task, config, runs, now, signals, hooks, logFile,
               cancelRequested, reports>>

\* C20: delivery never influences the task: a step of a chain (an answer
\* of the endpoint of any kind, a retry) changes nothing of the task and
\* of its runs, whose steps are taken from the task's own state only; a
\* stage that dispatches a notification has completed when the dispatch
\* returns, with the request of the chain still outstanding: no run ever
\* waits at a notification stage.
DeliveryNeverInfluencesTask ==
    /\ [](\A r \in DOMAIN runs :
            runs[r].phase = "stage"
            => runs[r].tasks[runs[r].idx].op # "callWebhooks")
    /\ [][/\ (\E c \in DOMAIN chains : chains'[c] # chains[c])
               => UNCHANGED taskState
          /\ Len(chains') > Len(chains) =>
               /\ chains'[Len(chains')].phase = "calling"
               /\ chains'[Len(chains')].answers = <<>>]_vars

\* the notification of the dsm was the last stage: the run is through its
\* stages, the task COMPLETED and the log being uploaded, while the first
\* request of that notification is outstanding
StagesDoneBeforeDelivery ==
    \E r \in DOMAIN runs, c \in DOMAIN chains :
        /\ chains[c].json.resourceType = "dsm"
        /\ chains[c].phase = "calling"
        /\ chains[c].answers = <<>>
        /\ runs[r].phase = "finishing"
        /\ task.status.code = COMPLETED

\* --------------------------------------------------- pipeline claims

\* the step of run r in which the engine's callback built the pipeline
\* (the engine exited with code 0 and the task was not canceled)
built(r) ==
    /\ r \in DOMAIN runs
    /\ runs[r].phase = "engine"
    /\ runs'[r].phase # "engine"
    /\ task'.status.code \in {RUNNING, COMPLETED}

\* what each stage of a stage list does
opsOf(tasks) == [i \in DOMAIN tasks |-> <<tasks[i].op, tasks[i].arg>>]

managed == task.projectId # ""

PointCloudStages ==
    << <<"runner", "pointcloud_pre">>, <<"runner", "pointcloud">>,
       <<"runner", "pointcloud_post">> >>

PointCloudUploads ==
    << <<"uploadSingle", "pointcloud.laz">>,
       <<"uploadPaths", "potree_pointcloud">>,
       <<"callWebhooks", "pointcloud">> >>

isUpload(stage) == stage[1] \in {"uploadSingle", "uploadPaths"}

isBundling(st) == st.op \in {"sevenZip", "archiver"} /\ st.arg = "all.zip"

\* the subsequence of the paths that are not in a set
without(paths, removed) ==
    LET kept(path) == path \notin removed IN SelectSeq(paths, kept)

\* the default list less what the test flags of a configuration leave out
defaultManifest(cfg) ==
    without(DefaultPaths,
            (IF cfg.test /\ cfg.testSkipOrthophotos
             THEN elements(SkipOrthophotoPaths) ELSE {})
            \cup (IF cfg.test /\ cfg.testSkipDems
                  THEN elements(SkipDemPaths) ELSE {}))

\* C22 as stated: in standalone mode with no requested outputs the last
\* stage of the pipeline is the only bundling stage, and its manifest is
\* the list of the 16 default paths.
DefaultPipelineEndsWithBundle ==
    [][\A r \in DOMAIN runs :
         (built(r) /\ ~managed /\ task.outputs = <<>>)
         => LET t == runs'[r].tasks
            IN /\ Len(t) > 0
               /\ isBundling(t[Len(t)])
               /\ t[Len(t)].files = DefaultPaths
               /\ Cardinality({i \in DOMAIN t : isBundling(t[i])}) = 1]_vars

\* C22: in standalone mode with no requested outputs the pipeline has
\* exactly one bundling stage; its manifest is the default list (16
\* paths) less the paths a test flag leaves out; it is the last stage
\* when no remote storage is configured, and is followed by the
\* upload-everything stage only, when it is.
DefaultPipelineBundle ==
    [][\A r \in DOMAIN runs :
         (built(r) /\ ~managed /\ task.outputs = <<>>)
         => LET t == runs'[r].tasks
                at == Len(t) - (IF config.s3Enabled THEN 1 ELSE 0)
            IN /\ at > 0
               /\ {i \in DOMAIN t : isBundling(t[i])} = {at}
               /\ t[at].files = defaultManifest(config)
               /\ Len(DefaultPaths) = 16
               /\ ~config.test => t[at].files = DefaultPaths
               /\ config.s3Enabled =>
                    /\ t[Len(t)].op = "uploadPaths"
                    /\ t[Len(t)].files[1] = "all.zip"]_vars

\* a standalone task with no requested outputs and no remote storage is at
\* the last stage of its pipeline, bundling the 16 default paths
DefaultPipelineBundling ==
    \E r \in DOMAIN runs :
        /\ runs[r].phase = "stage"
        /\ ~managed
        /\ task.outputs = <<>>
        /\ ~config.s3Enabled
        /\ runs[r].idx = Len(runs[r].tasks)
        /\ isBundling(runs[r].tasks[runs[r].idx])
        /\ runs[r].tasks[runs[r].idx].files = DefaultPaths

\* a stage list has the post-processing stages of a group
hasStages(tasks, types) ==
    \A type \in types :
        \E i \in DOMAIN tasks : tasks[i].op = "runner" /\ tasks[i].arg = type

\* the OR rule over the root path and the canonical artifact of a group
wanted(allPaths, root, canonical) ==
    includes(allPaths, root) \/ includes(allPaths, canonical)

\* C23: in both modes a post-processing group is in the pipeline if and
\* only if the resolved output list has the root path or the canonical
\* artifact of the group: point cloud, orthophoto and mesh.
GroupsFollowOrRule ==
    [][\A r \in DOMAIN runs :
         built(r)
         => LET t == runs'[r].tasks
                allPaths == resolveAllPaths(task.outputs, config)
            IN /\ hasStages(t, {"pointcloud_pre", "pointcloud", "pointcloud_post"})
                    <=> wanted(allPaths, "odm_georeferencing",
                               "odm_georeferencing/odm_georeferenced_model.laz")
               /\ hasStages(t, {"orthophoto"})
                    <=> wanted(allPaths, "odm_orthophoto",
                               "odm_orthophoto/odm_orthophoto.tif")
               /\ hasStages(t, {"mesh_initial", "mesh_post"})
                    <=> wanted(allPaths, "odm_texturing",
                               "odm_texturing/odm_textured_model.obj")]_vars

isUploadEverything(st) == st.op = "uploadPaths" /\ st.arg = "all"

isPostProcessing(st) == st.op \in {"postprocess", "runner", "noop"}

\* C24: the mode branch, for every list of requested outputs.  Managed
\* mode: no bundling (all.zip) stage and no upload-everything stage.
\* Standalone mode: exactly one bundling stage, after all post-processing
\* stages, followed by an upload-everything stage if and only if remote
\* storage is configured, and no per-artifact upload and no notification
\* stage.
ModeBranch ==
    [][\A r \in DOMAIN runs :
         built(r)
         => LET t == runs'[r].tasks
                bundles == {i \in DOMAIN t : isBundling(t[i])}
                everything == {i \in DOMAIN t : isUploadEverything(t[i])}
            IN IF managed
               THEN bundles = {} /\ everything = {}
               ELSE /\ Cardinality(bundles) = 1
                    /\ \A b \in bundles :
                         /\ \A i \in 1..(b - 1) : isPostProcessing(t[i])
                         /\ \A i \in DOMAIN t :
                              isPostProcessing(t[i]) => i < b
                         /\ everything =
                              (IF config.s3Enabled THEN {b + 1} ELSE {})
                         /\ Len(t) = b + Cardinality(everything)
                    /\ \A i \in DOMAIN t :
                         t[i].op \notin {"uploadSingle", "callWebhooks"}]_vars

\* a standalone task with remote storage is at the last stage, the
\* upload of everything, the bundling stage behind it and post-processing
\* stages before that
StandaloneUploadingEverything ==
    \E r \in DOMAIN runs :
        LET t == runs[r].tasks
        IN /\ runs[r].phase = "stage"
           /\ ~managed
           /\ config.s3Enabled
           /\ runs[r].idx = Len(t)
           /\ Len(t) > 2
           /\ isUploadEverything(t[Len(t)])
           /\ isBundling(t[Len(t) - 1])
           /\ isPostProcessing(t[Len(t) - 2])

\* C25: in managed mode with remote storage and several groups, a group's
\* upload and notification come before the post-processing of the next
\* group: while a mesh post-processing stage of a pipeline that has the
\* point-cloud group executes, the stage right after the point-cloud
\* stages was an upload and the notification 'pointcloud' has been
\* dispatched.
GroupDeliveredBeforeNextGroup ==
    \A r \in DOMAIN runs :
        LET t == runs[r].tasks
            at == runs[r].idx
        IN (/\ runs[r].phase = "stage"
            /\ managed
            /\ config.s3Enabled
            /\ hasStages(t, {"pointcloud_post"})
            /\ t[at].op = "runner"
            /\ t[at].arg \in {"mesh_initial", "mesh_post"})
           => /\ \E j \in 1..(at - 1) : t[j] = webhookStage("pointcloud")
              /\ \A j \in 1..(at - 1) :
                   t[j].arg = "pointcloud_post" => isUpload(opsOf(t)[j + 1])

\* ------------------------------------------------------ fan-out claims

\* C26: the engine is the first stage after the fan-out.  During the
\* fan-out nothing has been started; the engine is started by the
\* callback of the last fetch, when every link has been fetched and none
\* has failed; a failed fetch ends the run with nothing started, for
\* good.  No stage of the pipeline is started, and no pipeline is built,
\* before the engine has exited with code 0: any other report of the
\* engine ends the run with the engine the only thing started.
EngineAfterFanOut ==
    /\ [](\A r \in DOMAIN runs :
            /\ runs[r].phase = "download" =>
                 /\ runs[r].started = 0 /\ runs[r].tasks = <<>>
                 /\ runs[r].inflight > 0 =>
                      \A err \in TransportErrors :
                        LET run == downloadCallback(World, r, err).runs[r]
                        IN /\ run.phase = "engine" =>
                                /\ err = NoError
                                /\ runs[r].inflight = 1
                                /\ runs[r].next = Len(task.imageLinks) + 1
                           /\ err # NoError =>
                                /\ run.phase \in {"finishing", "done"}
                                /\ run.started = 0
            /\ runs[r].phase = "engine" =>
                 /\ runs[r].started = 1 /\ runs[r].tasks = <<>>
                 /\ runs[r].inflight = 0
                 /\ runs[r].next = Len(task.imageLinks) + 1
                 /\ \A rep \in ExitReports :
                      rep.err # NoError \/ rep.code # "0" =>
                        LET run == engineCallback(World, r, rep.err,
                                                  rep.code).runs[r]
                        IN /\ run.phase \in {"finishing", "done"}
                           /\ run.started = 1 /\ run.tasks = <<>>)
    /\ [][\A r \in DOMAIN runs :
            /\ runs'[r].started > runs[r].started =>
                 \/ runs[r].phase \in {"engine", "stage"}
                 \/ /\ runs[r].phase = "download" /\ ~runs[r].ended
                    /\ runs'[r].phase = "engine"
            /\ runs[r].phase # "download" /\ runs[r].started = 0 =>
                 runs'[r].started = 0]_vars

\* the six links of a task have been fetched and its engine is running
EngineAfterSixFetches ==
    \E r \in DOMAIN runs :
        /\ Len(task.imageLinks) = 6
        /\ runs[r].phase = "engine"
        /\ runs[r].next = 7
        /\ runs[r].started = 1

\* the line a run logs when it launches the fetch of a link
fetchLine(dlLink) == "downloading images/" \o imageName(dlLink) \o " ..."

\* how many times a line is in the log
occurrences(output, line) ==
    Cardinality({i \in DOMAIN output : output[i] = line})

\* C27: at most 4 fetches are in flight at any time, whatever the number
\* of links; the links are launched in order, each at most once in a run:
\* a run has launched the links before its index next, those in flight
\* are among them, and the log of the task's only run has one line per
\* launched link and none for a link not launched yet.
FetchesBoundedAndOnce ==
    /\ DownloadLimit = 4
    /\ [](\A r \in DOMAIN runs :
            /\ runs[r].inflight \in 0..DownloadLimit
            /\ runs[r].next \in 1..(Len(task.imageLinks) + 1)
            /\ runs[r].inflight <= runs[r].next - 1
            /\ Len(runs) = 1 =>
                 \A i \in DOMAIN task.imageLinks :
                    occurrences(task.output, fetchLine(task.imageLinks[i]))
                       = (IF i < runs[r].next THEN 1 ELSE 0))
    /\ [][\A r \in DOMAIN runs :
            /\ runs'[r].next >= runs[r].next
            /\ runs'[r].inflight - runs[r].inflight
                 \in {runs'[r].next - runs[r].next,
                      runs'[r].next - runs[r].next - 1}]_vars

\* four of six fetches are in flight, two links wait for a free slot
FourFetchesInFlight ==
    \E r \in DOMAIN runs :
        /\ Len(task.imageLinks) = 6
        /\ runs[r].phase = "download"
        /\ runs[r].inflight = 4
        /\ runs[r].next = 5

\* a run has the engine or a stage of its pipeline in execution: it waits
\* for its callback, and cancel() has not killed its process
executing(r) ==
    \/ runs[r].phase = "engine" /\ ~runs[r].canceled
    \/ /\ runs[r].phase = "stage"
       /\ runs[r].canceled => ~spawns(runs[r].tasks[runs[r].idx], config)

\* C28: outside the fan-out the stages of one task execute strictly one
\* after the other, under every interleaving of start(), cancel(),
\* restart() and the stage callbacks: at most one stage (the engine or a
\* stage of the pipeline) of the task is executing at any time.  The
\* process of a stage that cancel() has killed is not counted.
OneStageAtATime ==
    Cardinality({r \in DOMAIN runs : executing(r)}) <= 1

\* ----------------------------------------------- process supervisor claims

\* the call that is followed left a required option undefined
optionMissing ==
    /\ supervised # NoCall
    /\ \E o \in DOMAIN supervised.options :
         supervised.options[o] = "undefined"

\* C29: a call of a runner that leaves a required option undefined fails
\* at once with a configuration error naming an undefined option: no
\* process is created, and neither done (onExit) nor outputReceived
\* (onOutput) is ever called, in test mode or not.
MissingOptionFailsCall ==
    optionMissing =>
        /\ \E o \in DOMAIN supervised.options :
             /\ supervised.options[o] = "undefined"
             /\ supervised.thrown = o \o " must be defined"
        /\ supervised.process = "none"
        /\ supervised.exits = <<>>
        /\ supervised.outputs = <<>>

\* 7z was called for an archive without its working directory, with an
\* output callback, outside test mode
ArchiveCalledWithoutCwd ==
    /\ supervised # NoCall
    /\ supervised.runner = "sevenZip"
    /\ supervised.outputReceived
    /\ ~config.test
    /\ supervised.options =
          [o \in {"destination", "pathsToArchive", "cwd"} |->
              IF o = "cwd" THEN "undefined" ELSE "value"]
    /\ supervised.thrown = "cwd must be defined"

\* C30: in test mode a call of any runner with its required options
\* defined returns a canned success (done called once with no error and
\* code 0) and creates no process.
TestModeCreatesNoProcess ==
    (supervised # NoCall /\ config.test /\ ~optionMissing) =>
        /\ supervised.process = "none"
        /\ supervised.exits = <<Exit(NoError, "0", "null")>>

\* ------------------------------------------------------- stage outcomes

\* the error a run handed to finished(): kept by the run of a Task until
\* its log is uploaded, handed to done() at once by a SingularTask
reported(w, r) ==
    IF w.runs[r].phase = "done"
    THEN w.runs[r].done[Len(w.runs[r].done)]
    ELSE w.runs[r].error

\* C31: a supervised stage (a runner of runPostProcess / runProcess, the
\* post-processing script, 7z) is successful if and only if its process
\* exits with code 0.  Any other exit (a non-zero code, no code after a
\* signal) fails the stage with an error that carries the code, a spawn
\* error fails it with that error: the series ends with that error and no
\* further stage is invoked; after a success the series goes on.
SupervisedStageOutcome ==
    \A r \in DOMAIN runs :
        (runs[r].phase = "stage"
           /\ spawns(runs[r].tasks[runs[r].idx], config)) =>
        LET st == runs[r].tasks[runs[r].idx]
        IN \A ev \in ProcessEvents :
            LET e == stageError(st, ev.err, ev.code)
                w == stageCallback(World, r, ev.err, ev.code)
            IN /\ e = NoError <=> (ev.err = NoError /\ ev.code = "0")
               /\ ev.err # NoError => e = ev.err
               /\ (ev.err = NoError /\ ev.code # "0") =>
                    e = (IF st.op \in {"runner", "postprocess"}
                         THEN "Process exited with code "
                         ELSE "Could not archive .zip file, 7z exited with code ")
                        \o ev.code
               /\ e # NoError =>
                    /\ w.runs[r].phase \in {"finishing", "done"}
                    /\ reported(w, r) = e
                    /\ w.runs[r].started = runs[r].started
                    /\ w.task.status.code = FAILED
               /\ e = NoError =>
                    \/ w.runs[r].idx > runs[r].idx
                    \/ /\ w.runs[r].phase \in {"finishing", "done"}
                       /\ reported(w, r) = NoError

\* the conversion of a SingularTask's orthophoto exited with code 1: its
\* run ended with the error that carries the code, two stages invoked
ConversionExitedNonZero ==
    \E r \in DOMAIN runs :
        /\ task.kind = "SingularTask"
        /\ runs[r].phase = "done"
        /\ runs[r].started = 2
        /\ runs[r].done = <<"Process exited with code 1">>

\* ------------------------------------------------------------ log claims

isPrefix(a, b) == Len(a) <= Len(b) /\ SubSeq(b, 1, Len(a)) = a

\* a successful restart(): the only handler that makes a task QUEUED
restartStep ==
    /\ task.status.code \in {CANCELED, FAILED, COMPLETED}
    /\ task'.status.code = QUEUED

\* C32: the log is append-only during a run.  Every step either leaves
\* the lines of the log in place and appends at its end, or is a
\* successful restart(), which empties it; the chunks of output are in
\* the log in the order they arrived, and the lines of a chunk of engine
\* output are next to each other in their order.
LogAppendOnly ==
    /\ [][\/ isPrefix(task.output, task'.output)
          \/ restartStep /\ task'.output = <<>>]_vars
    /\ [](\A i, j \in DOMAIN task.output : \A a, b \in 1..MaxLines :
            (i < j /\ task.output[i] = chunkLine(a)
                   /\ task.output[j] = chunkLine(b)) => a < b)
    /\ [](\A j \in DOMAIN task.output : \A k \in 1..MaxLines :
            task.output[j] = "end of " \o chunkLine(k) =>
              /\ j > 2
              /\ task.output[j - 1] = ""
              /\ task.output[j - 2] = chunkLine(k))

\* the log of a running task holds a chunk of the engine and, after the
\* line of the post-processing script's launch, a chunk of that script
TwoChunksInLog ==
    \E i, j \in DOMAIN task.output :
        /\ task.status.code = RUNNING
        /\ i + 2 < j
        /\ task.output[i] = chunkLine(1)
        /\ task.output[i + 2] = "end of " \o chunkLine(1)
        /\ task.output[j - 1] = "About to run: postprocess.sh"
        /\ task.output[j] = chunkLine(2)

\* --------------------------------------------------- notification claims

ResourceTypes == {"pointcloud", "orthophoto", "dsm", "dtm", "mesh", "nexus"}

\* the artifacts a notification of a resource type announces
artifactsOf(resourceType) ==
    CASE resourceType = "pointcloud" -> {"pointcloud.laz", "potree_pointcloud"}
      [] resourceType = "orthophoto" -> {"orthophoto-cog.tif"}
      [] resourceType = "dsm" -> {"dsm.tif"}
      [] resourceType = "dtm" -> {"dtm.tif"}
      [] resourceType = "mesh" -> {"mesh.zip"}
      [] resourceType = "nexus" -> {"nexus.nxz"}

\* the tags of the notifications the last handler dispatched, in order
tagsOf(dispatched) ==
    SelectSeq([i \in DOMAIN dispatched |-> dispatched[i].json.resourceType],
              LAMBDA tag : tag # "")

\* C34: in managed mode a notification tagged R is dispatched only by a
\* step of a run that completes a stage successfully and goes past the
\* notification stage of R: the pipeline has one such stage, every upload
\* stage of R's artifacts lies before it (there is at least one) and has
\* completed, the one the run was waiting for in this step.  A run never
\* goes back in its pipeline, so R is announced at most once per run; a
\* run that has failed dispatches nothing any more.
TaggedNotificationAfterUploads ==
    [][/\ \A r \in DOMAIN runs :
            runs'[r].phase # "done" => runs'[r].idx >= runs[r].idx
       /\ \A n \in DOMAIN tagsOf(hooks') :
            LET R == tagsOf(hooks')[n]
            IN /\ managed
               /\ R \in ResourceTypes
               /\ \A m \in DOMAIN tagsOf(hooks') :
                     tagsOf(hooks')[m] = R => m = n
               /\ \E r \in DOMAIN runs :
                    LET t == runs[r].tasks
                        at == {j \in DOMAIN t : t[j] = webhookStage(R)}
                        ups == {i \in DOMAIN t :
                                  /\ t[i].op \in {"uploadSingle", "uploadPaths"}
                                  /\ t[i].arg \in artifactsOf(R)}
                    IN /\ runs[r].phase = "stage"
                       /\ Cardinality(at) = 1
                       /\ ups # {}
                       /\ \A j \in at :
                            /\ runs[r].idx < j /\ j < runs'[r].idx
                            /\ \A i \in ups : i <= runs[r].idx
                       /\ t[runs[r].idx].op \in {"uploadSingle", "uploadPaths"}
                       /\ runs'[r].error = NoError]_vars

\* the compressed mesh has been uploaded and announced: the run goes on
\* with the upload of the camera tracks
NexusAnnounced ==
    \E r \in DOMAIN runs :
        /\ managed
        /\ tagsOf(hooks) = <<"nexus">>
        /\ runs[r].phase = "stage"
        /\ runs[r].tasks[runs[r].idx].arg = "tracks.csv"

\* C35: a run of a task with a registered webhook that ends with the task
\* COMPLETED or FAILED dispatches a completion notification showing that
\* status and progress 100, for both job kinds.  The step that finalizes
\* the run is the last thing the run does: it is the step that has to
\* dispatch it.
CompletionNotified ==
    [][\A r \in DOMAIN runs :
         (/\ runs[r].phase # "done"
          /\ runs'[r].phase = "done"
          /\ task'.status.code \in {COMPLETED, FAILED}
          /\ task.webhook # "")
         => \E i \in DOMAIN hooks' :
               /\ hooks'[i].json.info.status.code = task'.status.code
               /\ hooks'[i].json.info.progress = 100]_vars

\* ----------------------------------------------------------- cancel claims

\* C36: cancel() on a RUNNING task signals every handle that is tracked
\* at that moment, once each and in their order, skips the absent handles
\* of test mode and succeeds; cancel() on a QUEUED, COMPLETED or FAILED
\* task signals nothing and leaves runningProcesses as it was.
CancelSignalsTrackedHandles ==
    LET w == cancel(World)
        procs == task.runningProcesses
    IN /\ task.status.code = RUNNING =>
            /\ w.ret.error = NoError
            /\ Undefined \notin elements(w.signals)
            /\ elements(w.signals) = elements(procs) \ {Undefined}
            /\ \A h \in elements(w.signals) :
                 /\ occurrences(w.signals, h) = 1
                 /\ occurrences(procs, h) = 1
            /\ w.signals = SelectSeq(procs, LAMBDA h : h # Undefined)
       /\ task.status.code \in {QUEUED, COMPLETED, FAILED} =>
            /\ w.signals = <<>>
            /\ w.task.runningProcesses = procs

\* a RUNNING task that tracked two handles has been canceled: both were
\* signalled
TwoHandlesSignalled ==
    /\ task.status.code = CANCELED
    /\ Len(signals) = 2
    /\ task.runningProcesses = <<>>

\* C37: after a successful restart() and the start() that follows, no
\* callback of the earlier, canceled run modifies the task: a step of such
\* a run (its engine, a stage or the upload of its log calls back) leaves
\* the status, the progress, the log and the timer of the task as they
\* are and invokes no further stage.
EarlierRunLeavesTaskAlone ==
    [][\A r \in DOMAIN runs :
         (/\ r < Len(runs)
          /\ runs[r].canceled
          /\ runs'[r] # runs[r])
         => /\ task'.status = task.status
            /\ task'.progress = task.progress
            /\ task'.output = task.output
            /\ task'.timer = task.timer
            /\ runs'[r].started = runs[r].started]_vars

\* C38: the status becomes COMPLETED only by the run of the most recent
\* start(), when every stage of its pipeline has completed (the engine
\* included, for a Task), and never by a run in which cancel() was
\* called.
CompletedOnlyByCleanRun ==
    [][(task'.status.code = COMPLETED /\ task.status.code # COMPLETED)
         => \E r \in DOMAIN runs :
               /\ r = Len(runs)
               /\ runs'[r] # runs[r]
               /\ ~runs[r].canceled
               /\ runs[r].phase \in {"engine", "stage"}
               /\ runs'[r].phase \in {"finishing", "done"}
               /\ reported([runs |-> runs'], r) = NoError
               /\ task.kind = "Task" => runs'[r].started >= 1]_vars

\* C39: outside test mode done (onExit) is called exactly once for a call
\* of a runner, whichever of the events 'error' and 'exit' of the child
\* process fire: never twice, and once as soon as the process is over.
DoneCalledOnce ==
    (supervised # NoCall /\ supervised.process # "none") =>
        /\ Len(supervised.exits) <= 1
        /\ supervised.process \in {"exited", "failed"} =>
               Len(supervised.exits) = 1

\* the pipeline holds the upload stage of a raster ("dsm" or "dtm")
uploadsRaster(tasks, raster) ==
    \E i \in DOMAIN tasks :
        tasks[i].op = "uploadSingle" /\ tasks[i].arg = raster \o ".tif"

\* C40: in managed mode with remote storage enabled, a built pipeline
\* that holds the upload stage of the DSM (of the DTM) raster belongs to
\* a run whose engine was given the option dsm (dtm): the options start()
\* computes from the task, which no step between start() and the build of
\* the pipeline changes.
RasterUploadHasEngineOption ==
    [][\A r \in DOMAIN runs :
         (built(r) /\ managed /\ config.s3Enabled) =>
            \A raster \in {"dsm", "dtm"} :
                uploadsRaster(runs'[r].tasks, raster)
                    => raster \in buildRunnerOptions(task)]_vars

====
